---- MODULE Spec2Model ----
(***************************************************************************)
(* The conversational memory graph of cg-glite: GraphDB (graph/operations.rs)*)
(* builds a property graph of Conversation, Message, Person, Topic and Task  *)
(* nodes with PART_OF and MENTIONED_IN edges, one backend statement per      *)
(* step.  Strings are sequences of one-character strings, so that            *)
(* escape_string and the backend's reading of a quoted literal are computed. *)
(* Every add_message call is a process of its own; its statements interleave *)
(* with those of the other calls at statement granularity.  AgenticMemory    *)
(* (agent/memory.rs) keeps the current conversation and ingests one message  *)
(* at a time; the two read operations run between any two statements.        *)
(***************************************************************************)
EXTENDS Naturals, Sequences, FiniteSets, Bags, TLC

VARIABLES
    nodes,      \* the graph's nodes in creation order: [label, props]
    edges,      \* the graph's edges, a bag of [type, src, dst] (src, dst index nodes)
    nextId,     \* the next identifier new_id() hands out
    calls,      \* one frame per add_message call, in call order
    failures,   \* backend failures (timeout, connection loss) so far
    clock,      \* the wall clock now() reads
    current_conversation_id,    \* AgenticMemory's field; 0 is None
    retrieved,  \* what the read operation that has just returned handed back
    text        \* strings handed to the statement builders, and what they built

vars == <<nodes, edges, nextId, calls, failures, clock, current_conversation_id,
          retrieved, text>>

(***************************************************************************)
(* Bounds of the model.                                                    *)
(***************************************************************************)
\* Conversations started successfully
MaxConversations == 1
\* add_message calls, all of which may be in flight together
MaxMessages == 2
\* Entities handed to the add_message calls, all calls together
MaxMentions == 3
\* Backend failures (timeout, connection loss)
MaxFailures == 1
\* Conversations started successfully through AgenticMemory
MaxStarts == 2
\* Messages handed to AgenticMemory, one after the other
MaxTurns == 3
\* The turns that may be user messages: the first MaxUserTurns
MaxUserTurns == 2
\* Ticks of the wall clock
MaxClock == 2
\* The largest limit get_conversation_messages is called with
MaxLimit == 2

(***************************************************************************)
(* Characters.  The control characters are named tokens.                   *)
(***************************************************************************)
SQ == "'"
BSL == "\\"
DQ == "dq"
LF == "LF"
CR == "CR"
TAB == "TAB"
BS == "BS"
FF == "FF"
NUL == "NUL"
\* A character outside ASCII (one char of the string, as s.chars() yields it)
NonAscii == "U+4E16"

\* The nine characters escape_string rewrites
Special == {SQ, BSL, DQ, LF, CR, TAB, BS, FF, NUL}

\* A slip: characters outside ASCII written as an escape sequence
EscapeChar_ascii_only(ch) ==
    CASE ch = SQ -> <<BSL, SQ>>
      [] ch = BSL -> <<BSL, BSL>>
      [] ch = LF -> <<BSL, "n">>
      [] ch = CR -> <<BSL, "r">>
      [] ch = TAB -> <<BSL, "t">>
      [] ch = BS -> <<BSL, "b">>
      [] ch = FF -> <<BSL, "f">>
      [] ch = NUL -> <<BSL, "0">>
      [] ch = DQ -> <<BSL, DQ>>
      [] ch = NonAscii -> <<BSL, "u">>
      [] OTHER -> <<ch>>

\* A slip: the backslash left as it is
EscapeChar_backslash_kept(ch) ==
    CASE ch = SQ -> <<BSL, SQ>>
      [] ch = LF -> <<BSL, "n">>
      [] ch = CR -> <<BSL, "r">>
      [] ch = TAB -> <<BSL, "t">>
      [] ch = BS -> <<BSL, "b">>
      [] ch = FF -> <<BSL, "f">>
      [] ch = NUL -> <<BSL, "0">>
      [] ch = DQ -> <<BSL, DQ>>
      [] OTHER -> <<ch>>

\* A slip: the carriage return written as the newline is
EscapeChar_cr_as_newline(ch) ==
    CASE ch = SQ -> <<BSL, SQ>>
      [] ch = BSL -> <<BSL, BSL>>
      [] ch = LF -> <<BSL, "n">>
      [] ch = CR -> <<BSL, "n">>
      [] ch = TAB -> <<BSL, "t">>
      [] ch = BS -> <<BSL, "b">>
      [] ch = FF -> <<BSL, "f">>
      [] ch = NUL -> <<BSL, "0">>
      [] ch = DQ -> <<BSL, DQ>>
      [] OTHER -> <<ch>>

\* GraphDB::escape_string, one character
EscapeChar(ch) ==
    CASE ch = SQ -> <<BSL, SQ>>
      [] ch = BSL -> <<BSL, BSL>>
      [] ch = LF -> <<BSL, "n">>
      [] ch = CR -> <<BSL, "r">>
      [] ch = TAB -> <<BSL, "t">>
      [] ch = BS -> <<BSL, "b">>
      [] ch = FF -> <<BSL, "f">>
      [] ch = NUL -> <<BSL, "0">>
      [] ch = DQ -> <<BSL, DQ>>
      [] OTHER -> <<ch>>

RECURSIVE escape_string(_)
escape_string(s) ==
    IF s = <<>> THEN <<>> ELSE EscapeChar(Head(s)) \o escape_string(Tail(s))

\* The character a two-character escape sequence of a quoted literal denotes
UnescapeChar(ch) ==
    CASE ch = "n" -> LF
      [] ch = "r" -> CR
      [] ch = "t" -> TAB
      [] ch = "b" -> BS
      [] ch = "f" -> FF
      [] ch = "0" -> NUL
      [] OTHER -> ch

\* The value the backend reads from the text between the quotes of a literal
RECURSIVE Unescape(_)
Unescape(s) ==
    IF s = <<>> THEN <<>>
    ELSE IF Head(s) = BSL /\ Len(s) >= 2
         THEN <<UnescapeChar(s[2])>> \o Unescape(Tail(Tail(s)))
         ELSE <<Head(s)>> \o Unescape(Tail(s))

(***************************************************************************)
(* Inputs: the names the extraction hands to add_message.                  *)
(***************************************************************************)
Alice == <<"A">>
OReilly == <<"O", SQ>>
Rust == <<"A">>
Graphs == <<"G">>
WriteTests == <<"T">>
\* A document the extraction names
Readme == <<"D">>

\* Message texts
Hello == <<"h">>
ItsMe == <<"i", SQ>>
UserMessages == {ItsMe}
AssistantMessages == {Hello}

PersonNames == {Alice, OReilly}
TopicNames == {Rust}
TaskDescriptions == {WriteTests}

RECURSIVE SeqsUpTo(_, _)
SeqsUpTo(S, n) ==
    IF n = 0 THEN {<<>>}
    ELSE LET shorter == SeqsUpTo(S, n - 1)
         IN  shorter \cup {Append(s, x) : s \in {t \in shorter : Len(t) = n - 1}, x \in S}

\* ExtractedEntities
ExtractedEntities ==
    {e \in [people : SeqsUpTo(PersonNames, MaxMentions),
            topics : SeqsUpTo(TopicNames, MaxMentions),
            tasks : SeqsUpTo(TaskDescriptions, MaxMentions),
            documents : {<<>>}] :
        Len(e.people) + Len(e.topics) + Len(e.tasks) <= MaxMentions}

(***************************************************************************)
(* EntityConfig                                                            *)
(***************************************************************************)
Person(name) == [variant |-> "Person", raw |-> name]
Topic(name) == [variant |-> "Topic", raw |-> name]
Task(description) == [variant |-> "Task", raw |-> description]

label(config) == config.variant

\* A slip: every entity type keyed by name
id_property_name(config) == "name"

id_property(config) ==
    IF config.variant \in {"Person", "Topic"} THEN "name" ELSE "description"

id_value(config) == escape_string(config.raw)

\* A slip: every entity type takes the deduplicating path
should_deduplicate_all(config) == TRUE

should_deduplicate(config) == config.variant \in {"Person", "Topic"}

\* The properties besides the identifier that the INSERT sets, with their
\* values; none (the empty function) for Person and Topic
additional_properties(config) ==
    IF config.variant = "Task"
    THEN [status |-> "pending", created_at |-> clock]
    ELSE <<>>

\* The order in which link_entities walks the three lists
EntityConfigs(entities) ==
    [i \in 1..Len(entities.people) |-> Person(entities.people[i])]
        \o [i \in 1..Len(entities.topics) |-> Topic(entities.topics[i])]
        \o [i \in 1..Len(entities.tasks) |-> Task(entities.tasks[i])]

(***************************************************************************)
(* The backend's statements, as functions of the graph.                    *)
(***************************************************************************)
\* MATCH (x:label {prop: value})
MatchNodes(ns, lbl, prop, value) ==
    {i \in DOMAIN ns : /\ ns[i].label = lbl
                       /\ prop \in DOMAIN ns[i].props
                       /\ ns[i].props[prop] = value}

ConversationNode(id) == [label |-> "Conversation", props |-> [id |-> id]]

\* content is the text the backend reads from the escaped literal
MessageNode(id, role, content, timestamp) ==
    [label |-> "Message",
     props |-> [id |-> id, role |-> role, content |-> Unescape(escape_string(content)),
                timestamp |-> timestamp]]

\* INSERT (:label {id_prop: 'id_value' additional_properties})
EntityNode(config) ==
    [label |-> label(config),
     props |-> IF "status" \in DOMAIN additional_properties(config)
               THEN [description |-> Unescape(id_value(config)),
                     status |-> additional_properties(config).status,
                     created_at |-> additional_properties(config).created_at]
               ELSE [name |-> Unescape(id_value(config))]]

\* A slip: the edges of the statement replace the graph's
InsertEdges_replacing(es, type, srcs, dsts) ==
    SetToBag({[type |-> type, src |-> a, dst |-> b] : a \in srcs, b \in dsts})

\* MATCH (a ...), (b ...) INSERT (a)-[:type]->(b): one edge per matched pair
InsertEdges(es, type, srcs, dsts) ==
    es (+) SetToBag({[type |-> type, src |-> a, dst |-> b] : a \in srcs, b \in dsts})

\* No string has been handed to a statement builder
NoText == [op |-> "none", s |-> <<>>, t |-> <<>>, out |-> <<>>]

\* No read operation has just returned
NoRead ==
    [op |-> "none", arg |-> 0, limit |-> 0, cause |-> "none", result |-> "none",
     value |-> <<>>]

Init ==
    /\ nodes = <<>>
    /\ edges = EmptyBag
    /\ nextId = 1
    /\ calls = <<>>
    /\ failures = 0
    /\ clock = 0
    /\ current_conversation_id = 0
    /\ retrieved = NoRead
    /\ text = NoText

(***************************************************************************)
(* The frame of one add_message call.                                      *)
(*   pc            the statement it executes next, or "returned"           *)
(*   k             the position in EntityConfigs(entities) being linked    *)
(*   log           the statements it has executed, with their outcomes     *)
(*   linked        what each finished link_entity call returned            *)
(*   entities_ret  what link_entities returned ("none" until it returns)   *)
(*   result        what add_message returned ("none" until it returns)     *)
(*   before        the calls that had returned when this one began         *)
(*   early         why the caller in AgenticMemory returned before calling  *)
(*                 add_message ("none" when it called it)                   *)
(***************************************************************************)
\* What the callers in agent/memory.rs pass: a user message with its extracted
\* entities, an assistant message with ExtractedEntities::default()
NoEntities == [people |-> <<>>, topics |-> <<>>, tasks |-> <<>>, documents |-> <<>>]

CallInputs ==
    {[role |-> "user", content |-> m, entities |-> e] :
        m \in UserMessages, e \in ExtractedEntities}
        \cup {[role |-> "assistant", content |-> m, entities |-> NoEntities] :
                m \in AssistantMessages}

\* The entities the calls so far were handed
MentionsHanded ==
    Cardinality({<<c, i>> \in (DOMAIN calls) \X (1..MaxMentions) :
                    i <= Len(EntityConfigs(calls[c].entities))})

ReturnedCalls == {c \in DOMAIN calls : calls[c].pc = "returned"}

\* The ids start_conversation has returned
ConversationIds ==
    {nodes[i].props.id : i \in {j \in DOMAIN nodes : nodes[j].label = "Conversation"}}

\* One statement's outcome as the call's log keeps it.  cause is "none" for a
\* success, "unavailable" for a backend failure, "exists" for a conditional
\* insert the backend reports as failed because the node is there already.
\* created holds the nodes the statement inserted, rows the edges.
Outcome(kind, ok, cause, created, rows) ==
    [kind |-> kind, ok |-> ok, cause |-> cause, created |-> created, rows |-> rows]

Cause(ok) == IF ok THEN "none" ELSE "unavailable"

\* A backend call may fail (timeout, connection loss) and then changes nothing
BackendFails(ok) ==
    /\ ok \/ failures < MaxFailures
    /\ failures' = IF ok THEN failures ELSE failures + 1

\* session.execute(&query)? on the Message insert
MessageInsertResult(ok) == IF ok THEN "Ok" ELSE "Err"

\* A slip: the PART_OF link's result dropped
PartOfResult_dropped(ok) == "Ok"

\* session.execute(&link_query)? on the PART_OF link
PartOfResult(ok) == IF ok THEN "Ok" ELSE "Err"

\* A slip: the MENTIONED_IN link's result dropped like the conditional insert's
MentionResult_dropped(ok) == "Ok"

\* session.execute(&link_query)? on the MENTIONED_IN link
MentionResult(ok) == IF ok THEN "Ok" ELSE "Err"

\* add_message returns res, link_entities having returned ret
Return(f, entry, ret, res) ==
    [f EXCEPT !.pc = "returned", !.log = Append(@, entry),
              !.entities_ret = ret, !.result = res]

(***************************************************************************)
(* GraphDB::start_conversation: one INSERT of a Conversation node.          *)
(***************************************************************************)
start_conversation(ok) ==
    /\ BackendFails(ok)
    /\ nodes' = IF ok THEN Append(nodes, ConversationNode(nextId)) ELSE nodes
    /\ nextId' = nextId + 1
    /\ UNCHANGED <<edges, calls>>

StartConversation ==
    /\ Cardinality(ConversationIds) < MaxConversations
    /\ \E ok \in BOOLEAN : start_conversation(ok)
    /\ retrieved' = NoRead
    /\ UNCHANGED <<clock, current_conversation_id, text>>

(***************************************************************************)
(* GraphDB::add_message, up to and including its first statement, the       *)
(* INSERT of the Message node.                                              *)
(***************************************************************************)
Frame(conversation_id, msg_id, role, content, entities) ==
    [pc |-> "link_part_of", conversation_id |-> conversation_id,
     msg_id |-> msg_id, role |-> role, content |-> content, entities |-> entities,
     k |-> 0, log |-> <<>>, linked |-> <<>>,
     entities_ret |-> "none", result |-> "none",
     before |-> ReturnedCalls, early |-> "none"]

add_message(conversation_id, role, content, entities, ok) ==
    LET msg_id == nextId
        timestamp == clock
        entry == Outcome("insert_message", ok, Cause(ok),
                         IF ok THEN {Len(nodes) + 1} ELSE {}, 0)
        f == Frame(conversation_id, msg_id, role, content, entities)
    IN  /\ BackendFails(ok)
        /\ nodes' = IF ok
                    THEN Append(nodes, MessageNode(msg_id, role, content, timestamp))
                    ELSE nodes
        /\ calls' = Append(calls,
                           IF MessageInsertResult(ok) = "Ok"
                           THEN [f EXCEPT !.log = Append(@, entry)]
                           ELSE Return(f, entry, "none", "Err"))
        /\ nextId' = nextId + 1
        /\ UNCHANGED edges

InsertMessage ==
    /\ Len(calls) < MaxMessages
    /\ \E conversation_id \in ConversationIds, in \in CallInputs, ok \in BOOLEAN :
        /\ MentionsHanded + Len(EntityConfigs(in.entities)) <= MaxMentions
        /\ add_message(conversation_id, in.role, in.content, in.entities, ok)
    /\ retrieved' = NoRead
    /\ UNCHANGED <<clock, current_conversation_id, text>>

\* A slip: link_entities returns after the first entity of the message
NextEntity_first_only(f, entry) ==
    IF f.k >= 1 \/ f.k >= Len(EntityConfigs(f.entities))
    THEN Return(f, entry, "Ok", "Ok")
    ELSE [f EXCEPT !.pc = "create_entity", !.k = @ + 1, !.log = Append(@, entry)]

\* link_entities has finished the entity at position k successfully
NextEntity(f, entry) ==
    IF f.k >= Len(EntityConfigs(f.entities))
    THEN Return(f, entry, "Ok", "Ok")
    ELSE [f EXCEPT !.pc = "create_entity", !.k = @ + 1, !.log = Append(@, entry)]

(***************************************************************************)
(* add_message's second statement: the PART_OF link.                        *)
(***************************************************************************)
LinkPartOf(c) ==
    /\ calls[c].pc = "link_part_of"
    /\ \E ok \in BOOLEAN :
        LET f == calls[c]
            ms == MatchNodes(nodes, "Message", "id", f.msg_id)
            cs == MatchNodes(nodes, "Conversation", "id", f.conversation_id)
            entry == Outcome("part_of", ok, Cause(ok), {},
                             IF ok THEN Cardinality(ms \X cs) ELSE 0)
        IN  /\ BackendFails(ok)
            /\ edges' = IF ok THEN InsertEdges(edges, "PART_OF", ms, cs) ELSE edges
            /\ calls' = [calls EXCEPT ![c] =
                            IF PartOfResult(ok) = "Ok"
                            THEN NextEntity(f, entry)
                            ELSE Return(f, entry, "none", "Err")]
    /\ retrieved' = NoRead
    /\ UNCHANGED <<nodes, nextId, clock, current_conversation_id, text>>

(***************************************************************************)
(* GraphDB::link_entity, first statement: the entity node.                  *)
(***************************************************************************)
\* A slip: the INSERT without the existence check
CondInsertRows_unguarded(existing) == 1

\* OPTIONAL MATCH (e ...) WITH e WHERE e IS NULL: the rows the INSERT runs on
CondInsertRows(existing) == IF existing = {} THEN 1 ELSE 0

\* A slip: the conditional insert's result returned with ?
AfterCreate_propagated(config, ok) == IF ok THEN "Ok" ELSE "Err"

\* A slip: the Task insert's result dropped
AfterCreate_dropped(config, ok) == "Ok"

\* What link_entity does with the result of its node statement: the
\* conditional insert's result is dropped (let _ =), the Task insert's is not
AfterCreate(config, ok) ==
    IF should_deduplicate(config) THEN "Ok" ELSE IF ok THEN "Ok" ELSE "Err"

Config(f) == EntityConfigs(f.entities)[f.k]

\* A slip: link_entities goes on to the next entity after an error
LinkEntityErr_continue(f, entry) ==
    NextEntity([f EXCEPT !.linked = Append(@, "Err")], entry)

\* link_entity returns Err: link_entities and add_message return it too
LinkEntityErr(f, entry) ==
    [Return(f, entry, "Err", "Err") EXCEPT !.linked = Append(@, "Err")]

CreateEntity(c) ==
    /\ calls[c].pc = "create_entity"
    /\ LET f == calls[c]
           config == Config(f)
           existing == MatchNodes(nodes, label(config), id_property(config),
                                  Unescape(id_value(config)))
           rows == IF should_deduplicate(config) THEN CondInsertRows(existing) ELSE 1
       IN  \E ok \in BOOLEAN, cause \in {"none", "unavailable", "exists"} :
            /\ ok <=> cause = "none"
            /\ cause = "exists" => should_deduplicate(config) /\ rows = 0
            /\ IF cause = "unavailable"
               THEN BackendFails(FALSE)
               ELSE failures' = failures
            /\ LET inserted == IF cause = "unavailable" THEN 0 ELSE rows
                   entry == Outcome(IF should_deduplicate(config)
                                    THEN "cond_insert" ELSE "insert",
                                    ok, cause,
                                    IF inserted = 1 THEN {Len(nodes) + 1} ELSE {}, 0)
               IN  /\ nodes' = IF inserted = 1
                               THEN Append(nodes, EntityNode(config)) ELSE nodes
                   /\ calls' = [calls EXCEPT ![c] =
                                   IF AfterCreate(config, ok) = "Ok"
                                   THEN [f EXCEPT !.pc = "link_mention",
                                                  !.log = Append(@, entry)]
                                   ELSE LinkEntityErr(f, entry)]
    /\ retrieved' = NoRead
    /\ UNCHANGED <<edges, nextId, clock, current_conversation_id, text>>

(***************************************************************************)
(* GraphDB::link_entity, second statement: the MENTIONED_IN link.           *)
(***************************************************************************)
LinkMention(c) ==
    /\ calls[c].pc = "link_mention"
    /\ \E ok \in BOOLEAN :
        LET f == calls[c]
            config == Config(f)
            es == MatchNodes(nodes, label(config), id_property(config),
                             Unescape(id_value(config)))
            ms == MatchNodes(nodes, "Message", "id", f.msg_id)
            entry == Outcome("mention", ok, Cause(ok), {},
                             IF ok THEN Cardinality(es \X ms) ELSE 0)
        IN  /\ BackendFails(ok)
            /\ edges' = IF ok THEN InsertEdges(edges, "MENTIONED_IN", es, ms) ELSE edges
            /\ calls' = [calls EXCEPT ![c] =
                            IF MentionResult(ok) = "Ok"
                            THEN NextEntity([f EXCEPT !.linked = Append(@, "Ok")], entry)
                            ELSE LinkEntityErr(f, entry)]
    /\ retrieved' = NoRead
    /\ UNCHANGED <<nodes, nextId, clock, current_conversation_id, text>>

Next ==
    \/ StartConversation
    \/ InsertMessage
    \/ \E c \in DOMAIN calls : LinkPartOf(c)
    \/ \E c \in DOMAIN calls : CreateEntity(c)
    \/ \E c \in DOMAIN calls : LinkMention(c)

Spec == Init /\ [][Next]_vars

\* The statement call c executes next: the backend answers every call, with
\* success or with an error, and the function goes on to its next line
Statement(c) ==
    /\ c \in DOMAIN calls
    /\ (LinkPartOf(c) \/ CreateEntity(c) \/ LinkMention(c))

\* Every call in progress keeps executing
SpecLive == Spec /\ \A c \in 1..MaxMessages : WF_vars(Statement(c))

TypeOK ==
    /\ nextId \in Nat
    /\ failures \in 0..MaxFailures
    /\ Len(calls) <= MaxMessages \/ Len(calls) <= MaxTurns

(***************************************************************************)
(* What the claims read off a state.                                       *)
(***************************************************************************)
NodesOf(lbl) == {i \in DOMAIN nodes : nodes[i].label = lbl}

\* The MENTIONED_IN edges from node e to node m
Mentions(e, m) == CopiesIn([type |-> "MENTIONED_IN", src |-> e, dst |-> m], edges)

RECURSIVE SumCopies(_)
SumCopies(S) ==
    IF S = {} THEN 0
    ELSE LET r == CHOOSE x \in S : TRUE
         IN  CopiesIn(r, edges) + SumCopies(S \ {r})

\* The edges of a type that leave node e
OutDegree(e, type) ==
    SumCopies({r \in BagToSet(edges) : r.type = type /\ r.src = e})

\* The Message node of call c (none when its insert failed)
MessageOf(c) == MatchNodes(nodes, "Message", "id", calls[c].msg_id)

Configs(c) == EntityConfigs(calls[c].entities)

Occurrences(s, x) == Cardinality({i \in DOMAIN s : s[i] = x})

\* A call's log holds the Message insert, the PART_OF link and then two
\* statements per entity: the node statement and the MENTIONED_IN link
CreateAt(i) == 2 * i + 1
MentionAt(i) == 2 * i + 2

Quiescent == \A c \in DOMAIN calls : calls[c].pc = "returned"

\* The nodes whose label and natural key are those of the entity
EntityNodes(config) ==
    MatchNodes(nodes, label(config), id_property(config), config.raw)

(***************************************************************************)
(* The read operations.  A query's rows are computed from the graph; the   *)
(* backend returns them in any order the query allows.                     *)
(***************************************************************************)
\* Value::String
StringValue(s) == [type |-> "String", val |-> s]

\* The orders in which the backend may return a set of rows
Orderings(S) ==
    {s \in [1..Cardinality(S) -> S] :
        \A i, j \in 1..Cardinality(S) : s[i] = s[j] => i = j}

\* LIMIT n
Limit(rows, n) == SubSeq(rows, 1, IF n < Len(rows) THEN n ELSE Len(rows))

\* What a read operation hands back: result and value, with the call's
\* arguments and the cause of the query's failure ("none" when it succeeded)
ReadResult(op, arg, limit, cause, result, value) ==
    [op |-> op, arg |-> arg, limit |-> limit, cause |-> cause, result |-> result,
     value |-> value]

\* session.query(&query)?
QueryResult(ok) == IF ok THEN "Ok" ELSE "Err"

\* MATCH (m:Message)-[:PART_OF]->(c:Conversation {id: '...'}): one match per edge
PartOfMatches(conversation_id) ==
    {<<r.src, r.dst, n>> : r \in {x \in BagToSet(edges) :
                                    /\ x.type = "PART_OF"
                                    /\ nodes[x.src].label = "Message"
                                    /\ x.dst \in MatchNodes(nodes, "Conversation", "id",
                                                            conversation_id)},
                           n \in 1..1}

\* A slip: ascending order
OrderByTimestamp_asc(rows) ==
    \A i, j \in DOMAIN rows :
        i < j => nodes[rows[i][1]].props.timestamp <= nodes[rows[j][1]].props.timestamp

\* ORDER BY m.timestamp DESC
OrderByTimestamp(rows) ==
    \A i, j \in DOMAIN rows :
        i < j => nodes[rows[i][1]].props.timestamp >= nodes[rows[j][1]].props.timestamp

\* RETURN m.role, m.content, m.timestamp
MessageRow(m) ==
    [role |-> StringValue(nodes[m].props.role),
     content |-> StringValue(nodes[m].props.content),
     timestamp |-> StringValue(nodes[m].props.timestamp)]

\* The filter_map of get_conversation_messages: rows whose three columns are
\* strings become (role, content, timestamp), the others are skipped
MessageTuples(rows) ==
    LET kept == SelectSeq(rows, LAMBDA row : /\ row.role.type = "String"
                                             /\ row.content.type = "String"
                                             /\ row.timestamp.type = "String")
    IN  [i \in 1..Len(kept) |->
            <<kept[i].role.val, kept[i].content.val, kept[i].timestamp.val>>]

(***************************************************************************)
(* GraphDB::get_conversation_messages                                      *)
(***************************************************************************)
GetConversationMessages ==
    /\ \E conversation_id \in ConversationIds, limit \in 0..MaxLimit, ok \in BOOLEAN :
        /\ BackendFails(ok)
        /\ IF QueryResult(ok) = "Ok"
           THEN \E matched \in Orderings(PartOfMatches(conversation_id)) :
                    /\ OrderByTimestamp(matched)
                    /\ LET rows == [i \in DOMAIN matched |-> MessageRow(matched[i][1])]
                       IN  retrieved' = ReadResult("get_conversation_messages",
                                                   conversation_id, limit,
                                                   Cause(ok), "Ok",
                                                   MessageTuples(Limit(rows, limit)))
           ELSE retrieved' = ReadResult("get_conversation_messages",
                                        conversation_id, limit, Cause(ok), "Err", <<>>)
    /\ UNCHANGED <<nodes, edges, nextId, calls, clock, current_conversation_id, text>>

\* A slip: the query without its WHERE clause
RelatedWhere_any(n) == TRUE

\* WHERE e:Person OR e:Task
RelatedWhere(n) == n.label = "Person" \/ n.label = "Task"

\* MATCH (t:Topic {name: '...'})-[:MENTIONED_IN]->(m:Message)<-[:MENTIONED_IN]-(e):
\* the two edges of a match are different edges
RelatedMatches(topic_name) ==
    {x \in MatchNodes(nodes, "Topic", "name", Unescape(escape_string(topic_name)))
            \X NodesOf("Message") \X DOMAIN nodes :
        /\ Mentions(x[1], x[2]) >= 1
        /\ Mentions(x[3], x[2]) >= (IF x[3] = x[1] THEN 2 ELSE 1)
        /\ RelatedWhere(nodes[x[3]])}

\* CASE WHEN e:Person THEN e.name WHEN e:Topic THEN e.name
\*      WHEN e:Task THEN e.description END as entity_name
entity_name(n) ==
    IF n.label = "Person" THEN StringValue(n.props.name)
    ELSE IF n.label = "Topic" THEN StringValue(n.props.name)
    ELSE IF n.label = "Task" THEN StringValue(n.props.description)
    ELSE [type |-> "Null", val |-> <<>>]

\* A slip: every row kept
EntityNames_unfiltered(rows) == [i \in 1..Len(rows) |-> rows[i].val]

\* The filter_map of find_related_entities
EntityNames(rows) ==
    LET kept == SelectSeq(rows, LAMBDA row : row.type = "String")
    IN  [i \in 1..Len(kept) |-> kept[i].val]

\* A slip: an empty result reported as an error
FindRelatedReturn_nonempty(entities) == IF entities = <<>> THEN "Err" ELSE "Ok"

\* Ok(entities)
FindRelatedReturn(entities) == "Ok"

\* The topic names find_related_entities is asked about
QueryTopics == TopicNames \cup {OReilly}

(***************************************************************************)
(* GraphDB::find_related_entities                                          *)
(***************************************************************************)
FindRelatedEntities ==
    /\ \E topic_name \in QueryTopics, ok \in BOOLEAN :
        /\ BackendFails(ok)
        /\ IF QueryResult(ok) = "Ok"
           THEN \E rows \in Orderings({entity_name(nodes[x[3]]) :
                                        x \in RelatedMatches(topic_name)}) :
                    retrieved' = ReadResult("find_related_entities", topic_name, 0,
                                            Cause(ok),
                                            FindRelatedReturn(EntityNames(rows)),
                                            EntityNames(rows))
           ELSE retrieved' = ReadResult("find_related_entities", topic_name, 0,
                                        Cause(ok), "Err", <<>>)
    /\ UNCHANGED <<nodes, edges, nextId, calls, clock, current_conversation_id, text>>

(***************************************************************************)
(* AgenticMemory.  start_conversation takes &mut self, so it runs while no *)
(* message is being ingested; the program hands over one message at a time. *)
(***************************************************************************)
\* A slip: the field assigned before the result is examined
AfterStart_always(ok, conv_id) == conv_id

\* let conv_id = start_conversation(..)?; current_conversation_id = Some(conv_id)
AfterStart(ok, conv_id) == IF ok THEN conv_id ELSE current_conversation_id

MemoryStartConversation ==
    /\ Quiescent
    /\ Cardinality(ConversationIds) < MaxStarts
    /\ \E ok \in BOOLEAN :
        /\ start_conversation(ok)
        /\ current_conversation_id' = AfterStart(ok, nextId)
    /\ retrieved' = NoRead
    /\ UNCHANGED <<clock, text>>

\* What entity_extractor.extract(message) returns
Extractions ==
    {[people |-> <<Alice>>, topics |-> <<Rust>>, tasks |-> <<>>, documents |-> <<>>],
     [people |-> <<OReilly>>, topics |-> <<>>, tasks |-> <<WriteTests>>,
      documents |-> <<Readme>>],
     [people |-> <<>>, topics |-> <<Rust>>, tasks |-> <<WriteTests>>, documents |-> <<>>],
     [people |-> <<>>, topics |-> <<Rust, Graphs>>, tasks |-> <<WriteTests>>,
      documents |-> <<>>]}

\* The caller returned an error before it called add_message
EarlyReturn(role, message, why) ==
    [Frame(current_conversation_id, 0, role, message, NoEntities)
        EXCEPT !.pc = "returned", !.result = "Err", !.early = why]

\* A slip: the message stored before the extraction's result is examined
ExtractionFailed_stored(message) ==
    /\ calls' = Append(calls, EarlyReturn("user", message, "extraction"))
    /\ nodes' = Append(nodes, MessageNode(nextId, "user", message, clock))
    /\ nextId' = nextId + 1
    /\ UNCHANGED <<edges, failures>>

\* entity_extractor.extract(message).await.context(..)? returns the error
ExtractionFailed(message) ==
    /\ calls' = Append(calls, EarlyReturn("user", message, "extraction"))
    /\ UNCHANGED <<nodes, edges, nextId, failures>>

ProcessUserMessage ==
    /\ Quiescent
    /\ Len(calls) < MaxUserTurns
    /\ \/ /\ current_conversation_id = 0
          /\ \E message \in UserMessages :
                calls' = Append(calls, EarlyReturn("user", message, "no_conversation"))
          /\ UNCHANGED <<nodes, edges, nextId, failures>>
       \/ /\ current_conversation_id # 0
          /\ \E message \in UserMessages : ExtractionFailed(message)
       \/ /\ current_conversation_id # 0
          /\ \E message \in UserMessages, entities \in Extractions, ok \in BOOLEAN :
                add_message(current_conversation_id, "user", message, entities, ok)
    /\ retrieved' = NoRead
    /\ UNCHANGED <<clock, current_conversation_id, text>>

StoreAssistantMessage ==
    /\ Quiescent
    /\ Len(calls) < MaxTurns
    /\ \/ /\ current_conversation_id = 0
          /\ \E message \in AssistantMessages :
                calls' = Append(calls, EarlyReturn("assistant", message, "no_conversation"))
          /\ UNCHANGED <<nodes, edges, nextId, failures>>
       \/ /\ current_conversation_id # 0
          /\ \E message \in AssistantMessages, ok \in BOOLEAN :
                add_message(current_conversation_id, "assistant", message, NoEntities, ok)
    /\ retrieved' = NoRead
    /\ UNCHANGED <<clock, current_conversation_id, text>>

\* Time passes.  Only the order of the timestamps is observed, and a call
\* reads the clock when it begins, so the clock is made to tick once only, and
\* between two calls.
Tick ==
    /\ Quiescent
    /\ clock < MaxClock
    /\ \E m \in NodesOf("Message") : nodes[m].props.timestamp = clock
    /\ clock' = clock + 1
    /\ retrieved' = NoRead
    /\ UNCHANGED <<nodes, edges, nextId, calls, failures, current_conversation_id, text>>

\* AgenticMemory: ingestion and retrieval by topic
NextMemory ==
    \/ MemoryStartConversation
    \/ ProcessUserMessage
    \/ StoreAssistantMessage
    \/ \E c \in DOMAIN calls : LinkPartOf(c)
    \/ \E c \in DOMAIN calls : CreateEntity(c)
    \/ \E c \in DOMAIN calls : LinkMention(c)
    \/ FindRelatedEntities

SpecMemory == Init /\ [][NextMemory]_vars

\* The whole session: with the clock and the conversation history as well
NextHistory ==
    \/ MemoryStartConversation
    \/ ProcessUserMessage
    \/ StoreAssistantMessage
    \/ \E c \in DOMAIN calls : LinkPartOf(c)
    \/ \E c \in DOMAIN calls : CreateEntity(c)
    \/ \E c \in DOMAIN calls : LinkMention(c)
    \/ FindRelatedEntities
    \/ GetConversationMessages
    \/ Tick

SpecHistory == Init /\ [][NextHistory]_vars

(***************************************************************************)
(* AgenticMemory::build_context and generate_response.  A text is a        *)
(* sequence of characters; the words of a format string are one element.   *)
(* The program awaits process_user_message before it calls                 *)
(* generate_response, so the context is built while no message is being    *)
(* ingested.                                                               *)
(***************************************************************************)
\* [String]::join
RECURSIVE Join(_, _)
Join(strs, sep) ==
    IF strs = <<>> THEN <<>>
    ELSE IF Len(strs) = 1 THEN Head(strs)
    ELSE Head(strs) \o <<sep>> \o Join(Tail(strs), sep)

PeopleLine(people) == <<"People mentioned: ">> \o Join(people, ", ")
TopicsLine(topics) == <<"Topics discussed: ">> \o Join(topics, ", ")
RelatedLine(topic, related) ==
    <<"Related to '">> \o topic \o <<"': ">> \o Join(related, ", ")
TasksLine(tasks) == <<"Tasks mentioned: ">> \o Join(tasks, ", ")
NoContext == <<"No specific context from previous conversations.">>

\* What one find_related_entities call may return in this state
RelatedResults(topic_name) ==
    {[cause |-> "unavailable", result |-> "Err", value |-> <<>>]}
        \cup {[cause |-> "none", result |-> FindRelatedReturn(EntityNames(rows)),
               value |-> EntityNames(rows)] :
                rows \in Orderings({entity_name(nodes[x[3]]) :
                                        x \in RelatedMatches(topic_name)})}

\* A slip: a failed retrieval kept as a line
RelatedPart_err_kept(topic, r) ==
    IF r.result = "Ok" /\ r.value = <<>> THEN <<>> ELSE <<RelatedLine(topic, r.value)>>

\* if let Ok(related) = find_related_entities(..) { if !related.is_empty() { push } }
RelatedPart(topic, r) ==
    IF r.result = "Ok" /\ r.value # <<>> THEN <<RelatedLine(topic, r.value)>> ELSE <<>>

\* The for loop over entities.topics, from topic i on
RECURSIVE RelatedParts(_, _, _)
RelatedParts(topics, related, i) ==
    IF i > Len(topics) THEN <<>>
    ELSE RelatedPart(topics[i], related[i]) \o RelatedParts(topics, related, i + 1)

\* A slip: a line for the documents
context_parts_documents(entities, related) ==
    (IF entities.people # <<>> THEN <<PeopleLine(entities.people)>> ELSE <<>>)
        \o (IF entities.topics # <<>>
            THEN <<TopicsLine(entities.topics)>> \o RelatedParts(entities.topics, related, 1)
            ELSE <<>>)
        \o (IF entities.tasks # <<>> THEN <<TasksLine(entities.tasks)>> ELSE <<>>)
        \o (IF entities.documents # <<>>
            THEN <<<<"Documents mentioned: ">> \o Join(entities.documents, ", ")>>
            ELSE <<>>)

\* A slip: the tasks line pushed before the topics
context_parts_tasks_first(entities, related) ==
    (IF entities.people # <<>> THEN <<PeopleLine(entities.people)>> ELSE <<>>)
        \o (IF entities.tasks # <<>> THEN <<TasksLine(entities.tasks)>> ELSE <<>>)
        \o (IF entities.topics # <<>>
            THEN <<TopicsLine(entities.topics)>> \o RelatedParts(entities.topics, related, 1)
            ELSE <<>>)

\* context_parts when build_context has pushed all it pushes; related[i] is
\* what find_related_entities returned for topic i
context_parts(entities, related) ==
    (IF entities.people # <<>> THEN <<PeopleLine(entities.people)>> ELSE <<>>)
        \o (IF entities.topics # <<>>
            THEN <<TopicsLine(entities.topics)>> \o RelatedParts(entities.topics, related, 1)
            ELSE <<>>)
        \o (IF entities.tasks # <<>> THEN <<TasksLine(entities.tasks)>> ELSE <<>>)

\* A slip: the empty text instead of the sentinel
ContextText_empty(parts) == Join(parts, LF)

\* Ok(sentinel) when context_parts is empty, Ok(context_parts.join("\n")) otherwise
ContextText(parts) == IF parts = <<>> THEN NoContext ELSE Join(parts, LF)

\* build_context has no error path: every return is Ok(..)
BuildContextResult(related) == "Ok"

\* The entities generate_response is called with
ContextEntities ==
    {NoEntities,
     [people |-> <<>>, topics |-> <<>>, tasks |-> <<>>, documents |-> <<Readme>>],
     [people |-> <<Alice>>, topics |-> <<Rust>>, tasks |-> <<>>, documents |-> <<>>],
     [people |-> <<Alice, OReilly>>, topics |-> <<>>, tasks |-> <<>>, documents |-> <<>>],
     [people |-> <<>>, topics |-> <<>>, tasks |-> <<WriteTests, WriteTests>>,
      documents |-> <<>>],
     [people |-> <<OReilly>>, topics |-> <<Graphs, Rust>>, tasks |-> <<WriteTests>>,
      documents |-> <<Readme, Readme>>]}

\* What generate_response hands back, with what build_context returned to it
\* (context_result, context), what each find_related_entities call returned
\* (related) and whether llm_client.complete was called (prompted)
Response(entities, related, context_result, context, prompted, result) ==
    [op |-> "generate_response", arg |-> entities, related |-> related,
     context_result |-> context_result, context |-> context,
     prompted |-> prompted, result |-> result]

Failed(related) == Cardinality({i \in DOMAIN related : related[i].cause = "unavailable"})

(***************************************************************************)
(* AgenticMemory::generate_response: build_context, then the completion.   *)
(***************************************************************************)
GenerateResponse ==
    /\ Quiescent
    /\ \E entities \in ContextEntities, llm_ok \in BOOLEAN :
        \E related \in [1..Len(entities.topics) ->
                            UNION {RelatedResults(t) : t \in TopicNames \cup {Graphs}}] :
            /\ \A i \in DOMAIN related : related[i] \in RelatedResults(entities.topics[i])
            /\ failures + Failed(related) <= MaxFailures
            /\ failures' = failures + Failed(related)
            /\ LET context_result == BuildContextResult(related)
                   context == ContextText(context_parts(entities, related))
               IN  retrieved' =
                        IF context_result = "Ok"
                        THEN Response(entities, related, "Ok", context, TRUE,
                                      IF llm_ok THEN "Ok" ELSE "Err")
                        ELSE Response(entities, related, "Err", <<>>, FALSE, "Err")
    /\ UNCHANGED <<nodes, edges, nextId, calls, clock, current_conversation_id, text>>

\* AgenticMemory: ingestion and response generation
NextContext ==
    \/ MemoryStartConversation
    \/ ProcessUserMessage
    \/ StoreAssistantMessage
    \/ \E c \in DOMAIN calls : LinkPartOf(c)
    \/ \E c \in DOMAIN calls : CreateEntity(c)
    \/ \E c \in DOMAIN calls : LinkMention(c)
    \/ GenerateResponse

SpecContext == Init /\ [][NextContext]_vars

(***************************************************************************)
(* The text of the statements.  A statement is the sequence of the pieces  *)
(* format! puts together: the text of the template, the values the         *)
(* operation generates (identifiers, timestamps, numbers, labels) and the  *)
(* strings of the caller, as they are embedded.                            *)
(***************************************************************************)
Alphabet == {"a", NonAscii} \cup Special
\* The length of the strings handed to escape_string and the builders
MaxStringLen == 3
Strings == SeqsUpTo(Alphabet, MaxStringLen)
\* The strings handed over as a second argument
ShortTexts == {Hello, ItsMe}

Template(t) == [kind |-> "template", field |-> "", text |-> <<t>>]
Generated(field) == [kind |-> "generated", field |-> field, text |-> <<>>]
CallerText(field, embedded) == [kind |-> "caller", field |-> field, text |-> embedded]

\* The statement of start_conversation, title being Some(title)
StartConversationQuery(title) ==
    <<Template("INSERT (:Conversation {id: '"), Generated("conv_id"),
      Template("', started_at: '"), Generated("timestamp"),
      Template("', title: '"), CallerText("title", title),
      Template("'})")>>

\* The two statements add_message builds itself
AddMessageQueries(conversation_id, role, content) ==
    <<<<Template("INSERT (:Message {id: '"), Generated("msg_id"),
        Template("', role: '"), CallerText("role", role),
        Template("', content: '"), CallerText("content", escape_string(content)),
        Template("', timestamp: '"), Generated("timestamp"),
        Template("'})")>>,
      <<Template("MATCH (c:Conversation {id: '"),
        CallerText("conversation_id", conversation_id),
        Template("'}), (m:Message {id: '"), Generated("msg_id"),
        Template("'}) INSERT (m)-[:PART_OF]->(c)")>>>>

\* The two statements of link_entity
LinkEntityQueries(config) ==
    <<IF should_deduplicate(config)
      THEN <<Template("OPTIONAL MATCH (e:"), Generated("label"), Template(" {"),
             Generated("id_prop"), Template(": '"),
             CallerText(id_property(config), id_value(config)),
             Template("'}) WITH e WHERE e IS NULL INSERT (:"), Generated("label"),
             Template(" {"), Generated("id_prop"), Template(": '"),
             CallerText(id_property(config), id_value(config)),
             Template("'"), Generated("additional_properties"), Template("})")>>
      ELSE <<Template("INSERT (:"), Generated("label"), Template(" {"),
             Generated("id_prop"), Template(": '"),
             CallerText(id_property(config), id_value(config)),
             Template("'"), Generated("additional_properties"), Template("})")>>,
      <<Template("MATCH (e:"), Generated("label"), Template(" {"),
        Generated("id_prop"), Template(": '"),
        CallerText(id_property(config), id_value(config)),
        Template("'}), (m:Message {id: '"), Generated("message_id"),
        Template("'}) INSERT (e)-[:MENTIONED_IN]->(m)")>>>>

GetConversationMessagesQuery(conversation_id) ==
    <<Template("MATCH (m:Message)-[:PART_OF]->(c:Conversation {id: '"),
      CallerText("conversation_id", conversation_id),
      Template("'}) RETURN m.role, m.content, m.timestamp ORDER BY m.timestamp DESC LIMIT "),
      Generated("limit")>>

FindRelatedEntitiesQuery(topic_name) ==
    <<Template("MATCH (t:Topic {name: '"),
      CallerText("topic_name", escape_string(topic_name)),
      Template("'})-[:MENTIONED_IN]->(m:Message)<-[:MENTIONED_IN]-(e) WHERE e:Person OR e:Task RETURN DISTINCT CASE ... END as entity_name")>>

\* The strings are handed over
InitText ==
    /\ nodes = <<>>
    /\ edges = EmptyBag
    /\ nextId = 1
    /\ calls = <<>>
    /\ failures = 0
    /\ clock = 0
    /\ current_conversation_id = 0
    /\ retrieved = NoRead
    /\ text \in {[op |-> "input", s |-> s, t |-> t, out |-> <<>>] :
                    s \in Strings, t \in ShortTexts}

Built(op, out) ==
    /\ text.op = "input"
    /\ text' = [text EXCEPT !.op = op, !.out = out]
    /\ UNCHANGED <<nodes, edges, nextId, calls, failures, clock,
                   current_conversation_id, retrieved>>

EscapeString == Built("escape_string", escape_string(text.s))

BuildStartConversation == Built("start_conversation", <<StartConversationQuery(text.s)>>)

BuildAddMessage ==
    \/ Built("add_message", AddMessageQueries(text.t, text.t, text.s))
    \/ Built("add_message", AddMessageQueries(text.s, text.t, text.t))
    \/ Built("add_message", AddMessageQueries(text.t, text.s, text.t))

BuildLinkEntity ==
    \E config \in {Person(text.s), Topic(text.s), Task(text.s)} :
        Built("link_entity", LinkEntityQueries(config))

\* The descriptor of an entity type: what each method of EntityConfig returns
DescribeEntity ==
    \E config \in {Person(text.s), Topic(text.s), Task(text.s)} :
        Built("entity_config",
              [variant |-> config.variant, raw |-> config.raw,
               label |-> label(config), id_property |-> id_property(config),
               id_value |-> id_value(config),
               should_deduplicate |-> should_deduplicate(config),
               additional_properties |-> additional_properties(config)])

BuildGetConversationMessages ==
    Built("get_conversation_messages", <<GetConversationMessagesQuery(text.s)>>)

BuildFindRelatedEntities ==
    Built("find_related_entities", <<FindRelatedEntitiesQuery(text.s)>>)

NextText ==
    \/ EscapeString
    \/ BuildStartConversation
    \/ BuildAddMessage
    \/ BuildLinkEntity
    \/ DescribeEntity
    \/ BuildGetConversationMessages
    \/ BuildFindRelatedEntities

SpecText == InitText /\ [][NextText]_vars

(***************************************************************************)
(* The rows of a query's answer.  The backend returns rows of named        *)
(* columns; a column may be missing from a row or hold a value that is not *)
(* a string.  The two read operations are applied to every answer of up to *)
(* MaxMessageRows and MaxNameRows rows.                                    *)
(***************************************************************************)
\* The rows of an answer to the query of get_conversation_messages
MaxMessageRows == 2
\* The rows of an answer to the query of find_related_entities
MaxNameRows == 3

\* row.get_value(column) is None
MissingValue == [type |-> "Missing", val |-> <<>>]
\* A Value that is not Value::String
NumberValue == [type |-> "Number", val |-> <<>>]

ColumnValues == {StringValue(Hello), StringValue(ItsMe), NumberValue, MissingValue}

MessageRows == [role : ColumnValues, content : ColumnValues, timestamp : ColumnValues]

\* The backend has answered; the rows are to be parsed
InitRows ==
    /\ nodes = <<>>
    /\ edges = EmptyBag
    /\ nextId = 1
    /\ calls = <<>>
    /\ failures = 0
    /\ clock = 0
    /\ current_conversation_id = 0
    /\ retrieved = NoRead
    /\ text \in {[op |-> "message_rows", s |-> rows, t |-> <<>>, out |-> <<>>] :
                    rows \in SeqsUpTo(MessageRows, MaxMessageRows)}
                \cup {[op |-> "name_rows", s |-> rows, t |-> <<>>, out |-> <<>>] :
                        rows \in SeqsUpTo(ColumnValues, MaxNameRows)}

\* get_conversation_messages from session.query(&query)? on: text.s is
\* result.rows
ParseMessageRows ==
    /\ text.op = "message_rows"
    /\ retrieved = NoRead
    /\ \E ok \in BOOLEAN :
        retrieved' = IF QueryResult(ok) = "Ok"
                     THEN ReadResult("get_conversation_messages", 0, 0, Cause(ok),
                                     "Ok", MessageTuples(text.s))
                     ELSE ReadResult("get_conversation_messages", 0, 0, Cause(ok),
                                     "Err", <<>>)
    /\ UNCHANGED <<nodes, edges, nextId, calls, failures, clock,
                   current_conversation_id, text>>

\* find_related_entities from session.query(&query)? on
ParseNameRows ==
    /\ text.op = "name_rows"
    /\ retrieved = NoRead
    /\ \E ok \in BOOLEAN :
        retrieved' = IF QueryResult(ok) = "Ok"
                     THEN ReadResult("find_related_entities", 0, 0, Cause(ok),
                                     FindRelatedReturn(EntityNames(text.s)),
                                     EntityNames(text.s))
                     ELSE ReadResult("find_related_entities", 0, 0, Cause(ok),
                                     "Err", <<>>)
    /\ UNCHANGED <<nodes, edges, nextId, calls, failures, clock,
                   current_conversation_id, text>>

NextRows ==
    \/ ParseMessageRows
    \/ ParseNameRows

SpecRows == InitRows /\ [][NextRows]_vars

(***************************************************************************)
(* The extraction response (extraction.rs).  A response is a sequence of   *)
(* lexemes: the punctuation of JSON, string literals, the other scalar     *)
(* literals, and text that is no JSON.  Every lexeme is at least one byte, *)
(* so two lexemes are adjacent bytes exactly when they are adjacent here.  *)
(* The names in the string literals hold no brace.                         *)
(***************************************************************************)
MaxElements == 2

Punct(ch) == [t |-> "punct", v |-> <<ch>>]
Literal(value) == [t |-> value.type, v |-> value.val]
Prose == [t |-> "text", v |-> <<"x">>]
EndOfInput == [t |-> "eof", v |-> <<>>]

\* serde_json::Value
JsonString(s) == [type |-> "String", val |-> s]
JsonNumber == [type |-> "Number", val |-> <<"1">>]
JsonBool == [type |-> "Bool", val |-> <<"true">>]
JsonNull == [type |-> "Null", val |-> <<"null">>]
JsonArray(elements) == [type |-> "Array", val |-> elements]
JsonObject(members) == [type |-> "Object", val |-> members]
\* A field the object does not have
Absent == [type |-> "Absent", val |-> <<>>]

Scalars == {"String", "Number", "Bool", "Null"}

FieldNames == <<"people", "topics", "tasks", "documents">>

\* The text of a value
RECURSIVE Render(_)
RECURSIVE RenderElements(_)
Render(value) ==
    IF value.type \in Scalars
    THEN <<Literal(value)>>
    ELSE IF value.type = "Array"
    THEN <<Punct("[")>> \o RenderElements(value.val) \o <<Punct("]")>>
    ELSE <<Punct("{"), Punct("}")>>

RenderElements(elements) ==
    IF elements = <<>>
    THEN <<>>
    ELSE Render(elements[1])
            \o (IF Len(elements) > 1
                THEN <<Punct(",")>> \o RenderElements(Tail(elements))
                ELSE <<>>)

RECURSIVE RenderMembers(_, _, _)
RenderMembers(fields, i, first) ==
    IF i > Len(FieldNames)
    THEN <<>>
    ELSE IF fields[FieldNames[i]].type = "Absent"
    THEN RenderMembers(fields, i + 1, first)
    ELSE (IF first THEN <<>> ELSE <<Punct(",")>>)
            \o <<Literal(JsonString(<<FieldNames[i]>>)), Punct(":")>>
            \o Render(fields[FieldNames[i]])
            \o RenderMembers(fields, i + 1, FALSE)

\* The text of the object the prompt of extract asks for
RenderObject(fields) ==
    <<Punct("{")>> \o RenderMembers(fields, 1, TRUE) \o <<Punct("}")>>

IsPunct(lexeme, ch) == lexeme.t = "punct" /\ lexeme.v = <<ch>>

At(lexemes, i) == IF i \in DOMAIN lexemes THEN lexemes[i] ELSE EndOfInput

ParseError == [ok |-> FALSE, value |-> JsonNull, next |-> 0]
Parsed_at(value, next) == [ok |-> TRUE, value |-> value, next |-> next]

\* serde_json's grammar: a value from position i on, and the position after
RECURSIVE ParseValue(_, _)
RECURSIVE ParseElements(_, _, _)
RECURSIVE ParseMembers(_, _, _)
ParseValue(lexemes, i) ==
    LET lexeme == At(lexemes, i)
    IN  IF lexeme.t \in Scalars
        THEN Parsed_at([type |-> lexeme.t, val |-> lexeme.v], i + 1)
        ELSE IF IsPunct(lexeme, "[")
        THEN (IF IsPunct(At(lexemes, i + 1), "]")
              THEN Parsed_at(JsonArray(<<>>), i + 2)
              ELSE ParseElements(lexemes, i + 1, <<>>))
        ELSE IF IsPunct(lexeme, "{")
        THEN (IF IsPunct(At(lexemes, i + 1), "}")
              THEN Parsed_at(JsonObject(<<>>), i + 2)
              ELSE ParseMembers(lexemes, i + 1, <<>>))
        ELSE ParseError

ParseElements(lexemes, i, acc) ==
    LET element == ParseValue(lexemes, i)
    IN  IF ~element.ok
        THEN ParseError
        ELSE IF IsPunct(At(lexemes, element.next), ",")
        THEN ParseElements(lexemes, element.next + 1, Append(acc, element.value))
        ELSE IF IsPunct(At(lexemes, element.next), "]")
        THEN Parsed_at(JsonArray(Append(acc, element.value)), element.next + 1)
        ELSE ParseError

ParseMembers(lexemes, i, acc) ==
    IF At(lexemes, i).t # "String" \/ ~IsPunct(At(lexemes, i + 1), ":")
    THEN ParseError
    ELSE LET member == ParseValue(lexemes, i + 2)
             members == Append(acc, [key |-> At(lexemes, i).v, value |-> member.value])
         IN  IF ~member.ok
             THEN ParseError
             ELSE IF IsPunct(At(lexemes, member.next), ",")
             THEN ParseMembers(lexemes, member.next + 1, members)
             ELSE IF IsPunct(At(lexemes, member.next), "}")
             THEN Parsed_at(JsonObject(members), member.next + 1)
             ELSE ParseError

\* serde_json::from_str: one value and nothing after it
from_str(json_str) ==
    LET parsed == ParseValue(json_str, 1)
    IN  IF parsed.ok /\ parsed.next = Len(json_str) + 1
        THEN [result |-> "Ok", value |-> parsed.value]
        ELSE [result |-> "Err", value |-> JsonNull]

\* value[field_name]: Null on a value that is no object and on a missing
\* key, the last of the members of that key otherwise
Index(value, field_name) ==
    IF value.type # "Object"
    THEN JsonNull
    ELSE LET hits == SelectSeq(value.val, LAMBDA member : member.key = <<field_name>>)
         IN  IF hits = <<>> THEN JsonNull ELSE hits[Len(hits)].value

extract_string_array(value, field_name) ==
    LET field == Index(value, field_name)
    IN  IF field.type = "Array"
        THEN LET strings == SelectSeq(field.val, LAMBDA v : v.type = "String")
             IN  [i \in 1..Len(strings) |-> strings[i].val]
        ELSE <<>>

\* response.find('{') and response.rfind('}'); 0 for None
find(response, ch) ==
    LET hits == {i \in DOMAIN response : IsPunct(response[i], ch)}
    IN  IF hits = {} THEN 0 ELSE CHOOSE i \in hits : \A j \in hits : i <= j

rfind(response, ch) ==
    LET hits == {i \in DOMAIN response : IsPunct(response[i], ch)}
    IN  IF hits = {} THEN 0 ELSE CHOOSE i \in hits : \A j \in hits : i >= j

\* &response[start..=end]: the slice start..end+1, which panics when start
\* is beyond end + 1
Slice(response, start, end) ==
    IF start > end + 1
    THEN [panic |-> TRUE, s |-> <<>>]
    ELSE [panic |-> FALSE, s |-> SubSeq(response, start, end)]

json_str(response) ==
    LET start == find(response, "{")
        end == rfind(response, "}")
    IN  IF start # 0 /\ end # 0
        THEN Slice(response, start, end)
        ELSE [panic |-> FALSE, s |-> response]

ParseResult(result, entities) == [result |-> result, entities |-> entities]

parse_extraction_response(response) ==
    LET json == json_str(response)
        parsed == from_str(json.s)
    IN  IF json.panic
        THEN ParseResult("panic", NoEntities)
        ELSE IF parsed.result = "Err"
        THEN ParseResult("Err", NoEntities)
        ELSE ParseResult("Ok",
                [people |-> extract_string_array(parsed.value, "people"),
                 topics |-> extract_string_array(parsed.value, "topics"),
                 tasks |-> extract_string_array(parsed.value, "tasks"),
                 documents |-> extract_string_array(parsed.value, "documents")])

\* What the model answers.  The elements of an array: strings, the other
\* scalars, an array
ElementValues ==
    {JsonString(Alice), JsonString(Rust), JsonNumber, JsonBool, JsonNull,
     JsonArray(<<JsonString(Alice)>>)}

FieldValues ==
    {Absent, JsonNull, JsonNumber, JsonString(Alice), JsonObject(<<>>)}
        \cup {JsonArray(elements) : elements \in SeqsUpTo(ElementValues, MaxElements)}

OtherFieldValues == {Absent, JsonArray(<<JsonString(Rust)>>)}

NoFields == [name \in {FieldNames[i] : i \in DOMAIN FieldNames} |-> Absent]

\* One field takes every value, the three others are absent or a list of one
ResponseFields ==
    UNION {{fields \in [{FieldNames[i] : i \in DOMAIN FieldNames}
                            -> FieldValues \cup OtherFieldValues] :
                \A j \in DOMAIN FieldNames :
                    j # k => fields[FieldNames[j]] \in OtherFieldValues} :
           k \in DOMAIN FieldNames}

Wrappings == {<<>>, <<Prose>>}

\* A response and what it holds: the object of those fields, a value that is
\* no object, or no JSON
Holding(holds, fields, response) ==
    [op |-> "extract", s |-> response,
     t |-> [holds |-> holds, fields |-> fields], out |-> <<>>]

ObjectResponses ==
    {Holding("object", fields, before \o RenderObject(fields) \o after) :
        fields \in ResponseFields, before \in Wrappings, after \in Wrappings}

ValueResponses ==
    {Holding("value", NoFields, Render(value)) :
        value \in {JsonNull, JsonNumber, JsonString(Alice),
                   JsonArray(<<JsonString(Alice)>>)}}

SampleObject ==
    RenderObject([NoFields EXCEPT !["people"] = JsonArray(<<JsonString(Alice), JsonNumber>>)])

Malformed ==
    {SubSeq(SampleObject, 1, n) : n \in 0..(Len(SampleObject) - 1)}
        \cup {SubSeq(SampleObject, n, Len(SampleObject)) : n \in 2..Len(SampleObject)}
        \cup {<<Prose>>,
              <<Punct("}"), Punct("{")>>,
              <<Punct("}"), Prose, Punct("{")>>,
              <<Prose, Punct("}"), Prose, Prose, Punct("{"), Prose>>,
              <<Punct("{"), Punct("}"), Punct("{"), Punct("}")>>,
              <<Punct("{"), Literal(JsonString(<<"people">>)), Punct("["), Punct("]"),
                Punct("}")>>,
              <<Punct("{"), Literal(JsonString(<<"people">>)), Punct(":"), Punct("["),
                Literal(JsonString(Alice)), Punct(","), Punct("]"), Punct("}")>>}

MalformedResponses == {Holding("none", NoFields, response) : response \in Malformed}

InitParse ==
    /\ nodes = <<>>
    /\ edges = EmptyBag
    /\ nextId = 1
    /\ calls = <<>>
    /\ failures = 0
    /\ clock = 0
    /\ current_conversation_id = 0
    /\ retrieved = NoRead
    /\ text \in ObjectResponses \cup ValueResponses \cup MalformedResponses

\* extract up to llm_client.complete(...).await.context(...)?: the response
\* arrives, or extract returns the error
Complete ==
    /\ text.op = "extract"
    /\ \E ok \in BOOLEAN :
        text' = IF ok
                THEN [text EXCEPT !.op = "response"]
                ELSE [text EXCEPT !.op = "failed", !.out = ParseResult("Err", NoEntities)]
    /\ UNCHANGED <<nodes, edges, nextId, calls, failures, clock,
                   current_conversation_id, retrieved>>

\* extract from parse_extraction_response(&response)? on
ParseExtractionResponse ==
    /\ text.op = "response"
    /\ text' = [text EXCEPT !.op = "parsed", !.out = parse_extraction_response(text.s)]
    /\ UNCHANGED <<nodes, edges, nextId, calls, failures, clock,
                   current_conversation_id, retrieved>>

NextParse ==
    \/ Complete
    \/ ParseExtractionResponse

SpecParse == InitParse /\ [][NextParse]_vars

(***************************************************************************)
(* C1.  In every reachable state, with the statements of concurrent        *)
(* add_message calls interleaved at statement granularity, at most one     *)
(* Person node exists per name and at most one Topic node per name.        *)
(***************************************************************************)
C1_UniquePerName ==
    \A lbl \in {"Person", "Topic"} : \A i, j \in NodesOf(lbl) :
        nodes[i].props.name = nodes[j].props.name => i = j

\* Two calls in flight have both run the conditional insert of the same
\* entity; the first inserted the node, the second found it
C1_Witness ==
    \E c1, c2 \in DOMAIN calls :
        /\ c1 # c2
        /\ calls[c1].pc = "link_mention" /\ calls[c2].pc = "link_mention"
        /\ should_deduplicate(Config(calls[c1]))
        /\ Config(calls[c1]) = Config(calls[c2])
        /\ calls[c1].log[Len(calls[c1].log)].created # {}
        /\ calls[c2].log[Len(calls[c2].log)].created = {}
        /\ calls[c2].log[Len(calls[c2].log)].cause # "unavailable"

(***************************************************************************)
(* C2.  Dedup idempotence: two sequential add_message calls that both      *)
(* returned success and each list the same Person (or Topic) name once     *)
(* leave exactly one node of that label and name, with exactly one         *)
(* MENTIONED_IN edge to each of the two messages.                          *)
(***************************************************************************)
C2_DedupIdempotence ==
    \A c1, c2 \in DOMAIN calls :
        (/\ c1 \in calls[c2].before
         /\ calls[c1].result = "Ok" /\ calls[c2].result = "Ok")
        => \A i \in DOMAIN Configs(c1) :
            LET config == Configs(c1)[i]
            IN  (/\ should_deduplicate(config)
                 /\ Occurrences(Configs(c1), config) = 1
                 /\ Occurrences(Configs(c2), config) = 1)
                => /\ Cardinality(EntityNodes(config)) = 1
                   /\ \A e \in EntityNodes(config) :
                        /\ \A m \in MessageOf(c1) : Mentions(e, m) = 1
                        /\ \A m \in MessageOf(c2) : Mentions(e, m) = 1

(***************************************************************************)
(* C3.  Task nodes are never merged.  As claimed: once every call has      *)
(* returned, the graph holds exactly as many Task nodes as there were      *)
(* successful task mentions.                                               *)
(***************************************************************************)
TaskMentions(res) ==
    {<<c, i>> \in (DOMAIN calls) \X (1..MaxMentions) :
        /\ i <= Len(calls[c].linked)
        /\ Configs(c)[i].variant = "Task"
        /\ calls[c].linked[i] = res}

\* The node statements of Task entities that the backend executed
TaskInserts ==
    {<<c, i>> \in (DOMAIN calls) \X (1..MaxMentions) :
        /\ CreateAt(i) <= Len(calls[c].log)
        /\ Configs(c)[i].variant = "Task"
        /\ calls[c].log[CreateAt(i)].ok}

C3_ExactlyK ==
    Quiescent => Cardinality(NodesOf("Task")) = Cardinality(TaskMentions("Ok"))

(***************************************************************************)
(* C3, amended.  Every successful Task node statement creates a node of    *)
(* its own, so the graph holds exactly one Task node per successful Task   *)
(* INSERT: at least as many as there were successful task mentions, and    *)
(* exactly as many once every call has returned and no MENTIONED_IN link   *)
(* of a Task has failed.                                                   *)
(***************************************************************************)
C3_TasksNeverMerged ==
    /\ Cardinality(NodesOf("Task")) = Cardinality(TaskInserts)
    /\ \A p \in TaskInserts :
        /\ Cardinality(calls[p[1]].log[CreateAt(p[2])].created) = 1
        /\ calls[p[1]].log[CreateAt(p[2])].created \subseteq NodesOf("Task")
        /\ \A q \in TaskInserts :
            p # q => calls[p[1]].log[CreateAt(p[2])].created
                        # calls[q[1]].log[CreateAt(q[2])].created
    /\ Cardinality(TaskMentions("Ok")) <= Cardinality(NodesOf("Task"))
    /\ (Quiescent /\ TaskMentions("Err") \cap TaskInserts = {})
        => Cardinality(NodesOf("Task")) = Cardinality(TaskMentions("Ok"))

\* One message mentions the same task twice, another mentions it again
C3_Witness ==
    /\ Quiescent
    /\ Cardinality(TaskMentions("Ok")) = 3
    /\ Cardinality(NodesOf("Task")) = 3
    /\ \E c \in DOMAIN calls : Len(calls[c].entities.tasks) = 2
    /\ \A i, j \in NodesOf("Task") : nodes[i].props.description = nodes[j].props.description

(***************************************************************************)
(* C4.  Every Task node whose link_entity returned success has exactly one *)
(* MENTIONED_IN edge, to the message whose ingestion created it.           *)
(***************************************************************************)
C4_TaskOneMention ==
    \A p \in TaskMentions("Ok") :
        \A e \in calls[p[1]].log[CreateAt(p[2])].created :
            /\ OutDegree(e, "MENTIONED_IN") = 1
            /\ \A m \in MessageOf(p[1]) : Mentions(e, m) = 1

(***************************************************************************)
(* C5.  Whenever link_entity returned success for an entity and a message, *)
(* a node with the entity's label and natural key exists and has a         *)
(* MENTIONED_IN edge to that message.                                      *)
(***************************************************************************)
C5_LinkedWhenOk ==
    \A c \in DOMAIN calls : \A i \in DOMAIN calls[c].linked :
        calls[c].linked[i] = "Ok"
        => \E e \in EntityNodes(Configs(c)[i]) : \E m \in MessageOf(c) :
            Mentions(e, m) >= 1

(***************************************************************************)
(* C6.  After any sequence of completed add_message calls every Message    *)
(* node has exactly one PART_OF edge, and it points to a Conversation.     *)
(***************************************************************************)
C6_MessageInOneConversation ==
    Quiescent
    => \A m \in NodesOf("Message") :
        /\ OutDegree(m, "PART_OF") = 1
        /\ \A r \in BagToSet(edges) :
            (r.type = "PART_OF" /\ r.src = m) => r.dst \in NodesOf("Conversation")

(***************************************************************************)
(* C7.  A failed MENTIONED_IN link statement is always propagated: it is   *)
(* the call's last statement, and link_entity, link_entities and           *)
(* add_message all returned an error.                                      *)
(***************************************************************************)
C7_MentionFailurePropagates ==
    \A c \in DOMAIN calls : \A j \in DOMAIN calls[c].log :
        (calls[c].log[j].kind = "mention" /\ ~calls[c].log[j].ok)
        => /\ j = Len(calls[c].log)
           /\ calls[c].pc = "returned"
           /\ Len(calls[c].linked) = calls[c].k
           /\ MentionAt(calls[c].k) = j
           /\ calls[c].linked[calls[c].k] = "Err"
           /\ calls[c].entities_ret = "Err"
           /\ calls[c].result = "Err"

\* The link of a Person (whose node exists) failed
C7_Witness ==
    \E c \in DOMAIN calls :
        /\ calls[c].log # <<>>
        /\ calls[c].log[Len(calls[c].log)].kind = "mention"
        /\ ~calls[c].log[Len(calls[c].log)].ok
        /\ Config(calls[c]).variant = "Person"
        /\ EntityNodes(Config(calls[c])) # {}

(***************************************************************************)
(* C8.  For Person and Topic a conditional insert that fails because the   *)
(* node already exists is swallowed: the MENTIONED_IN link statement is    *)
(* the next statement executed and link_entity returns what it returned.   *)
(***************************************************************************)
C8_ConflictSwallowed ==
    \A c \in DOMAIN calls : \A i \in 1..calls[c].k :
        LET log == calls[c].log
        IN  (/\ CreateAt(i) <= Len(log)
             /\ log[CreateAt(i)].kind = "cond_insert"
             /\ log[CreateAt(i)].cause = "exists")
            => /\ should_deduplicate(Configs(c)[i])
               /\ log[CreateAt(i)].created = {}
               /\ IF MentionAt(i) <= Len(log)
                  THEN /\ log[MentionAt(i)].kind = "mention"
                       /\ Len(calls[c].linked) >= i
                       /\ calls[c].linked[i] = IF log[MentionAt(i)].ok THEN "Ok" ELSE "Err"
                  ELSE /\ calls[c].pc = "link_mention"
                       /\ calls[c].k = i
                       /\ Len(calls[c].linked) = i - 1
                       /\ calls[c].result = "none"

\* A conflict was reported, the link ran and succeeded, link_entity returned Ok
C8_Witness ==
    \E c \in DOMAIN calls : \E i \in DOMAIN calls[c].linked :
        /\ calls[c].log[CreateAt(i)].cause = "exists"
        /\ calls[c].log[MentionAt(i)].ok
        /\ calls[c].linked[i] = "Ok"
        /\ \E e \in EntityNodes(Configs(c)[i]) : \E m \in MessageOf(c) : Mentions(e, m) = 1

(***************************************************************************)
(* C9.  A backend failure of any statement issued during add_message is    *)
(* fatal for that call: it returns an error.                               *)
(***************************************************************************)
C9_BackendFailureFatal ==
    \A c \in DOMAIN calls :
        (\E j \in DOMAIN calls[c].log : calls[c].log[j].cause = "unavailable")
        => calls[c].pc = "returned" /\ calls[c].result = "Err"

(***************************************************************************)
(* C10.  For a Task a failed node INSERT makes link_entity return an error *)
(* without executing the MENTIONED_IN link: the failed INSERT is the       *)
(* call's last statement and created nothing.                              *)
(***************************************************************************)
C10_TaskInsertFailureStops ==
    \A c \in DOMAIN calls : \A j \in DOMAIN calls[c].log :
        (calls[c].log[j].kind = "insert" /\ ~calls[c].log[j].ok)
        => /\ j = Len(calls[c].log)
           /\ calls[c].log[j].created = {}
           /\ calls[c].pc = "returned"
           /\ CreateAt(calls[c].k) = j
           /\ Len(calls[c].linked) = calls[c].k
           /\ calls[c].linked[calls[c].k] = "Err"
           /\ calls[c].entities_ret = "Err"
           /\ calls[c].result = "Err"
           /\ Cardinality({n \in DOMAIN calls[c].log : calls[c].log[n].kind = "mention"})
                = calls[c].k - 1

\* The second task of a message failed to insert after the first was linked
C10_Witness ==
    \E c \in DOMAIN calls :
        /\ calls[c].log # <<>>
        /\ calls[c].log[Len(calls[c].log)].kind = "insert"
        /\ ~calls[c].log[Len(calls[c].log)].ok
        /\ calls[c].linked = <<"Ok", "Err">>

(***************************************************************************)
(* C11.  Two concurrent add_message calls that both list the same Person   *)
(* name once, their statements interleaved in any order: when both have    *)
(* returned success the graph holds exactly one Person node of that name,  *)
(* and it has exactly one MENTIONED_IN edge to each of the two messages.   *)
(***************************************************************************)
\* Neither call had returned when the other began
Concurrent(c1, c2) ==
    c1 # c2 /\ c1 \notin calls[c2].before /\ c2 \notin calls[c1].before

C11_ConcurrentSamePerson ==
    \A c1, c2 \in DOMAIN calls :
        (/\ Concurrent(c1, c2)
         /\ calls[c1].result = "Ok" /\ calls[c2].result = "Ok")
        => \A i \in DOMAIN Configs(c1) :
            LET config == Configs(c1)[i]
            IN  (/\ config.variant = "Person"
                 /\ Occurrences(Configs(c1), config) = 1
                 /\ Occurrences(Configs(c2), config) = 1)
                => /\ Cardinality(EntityNodes(config)) = 1
                   /\ \A e \in EntityNodes(config) :
                        /\ \E m \in MessageOf(c1) : Mentions(e, m) = 1
                        /\ \E m \in MessageOf(c2) : Mentions(e, m) = 1

(***************************************************************************)
(* C12.  Creation is monotonic: every step of every operation keeps the    *)
(* existing nodes as they are, with their labels and properties, and keeps *)
(* every existing edge; nodes and edges are only added.  A step of one of  *)
(* the two read operations leaves nodes and edges unchanged.               *)
(***************************************************************************)
C12_Monotonic ==
    [][/\ Len(nodes') >= Len(nodes)
       /\ SubSeq(nodes', 1, Len(nodes)) = nodes
       /\ edges \sqsubseteq edges'
       /\ retrieved' # NoRead => nodes' = nodes /\ edges' = edges]_vars

\* A read has just returned from a graph that holds every kind of node and edge
C12_Witness ==
    /\ retrieved.op = "get_conversation_messages"
    /\ retrieved.result = "Ok"
    /\ retrieved.value # <<>>
    /\ \A lbl \in {"Conversation", "Message", "Person", "Topic", "Task"} :
        NodesOf(lbl) # {}
    /\ \E r \in BagToSet(edges) : r.type = "MENTIONED_IN"

(***************************************************************************)
(* C13.  If the Message insert fails, add_message returns an error and     *)
(* that insert is the only statement it executed: there is no Message      *)
(* node, no PART_OF edge, and no entity was linked.  If the PART_OF link   *)
(* statement fails, add_message returns an error having executed those two *)
(* statements only: no entity was linked, and the Message node that was    *)
(* inserted stays in the graph, without a PART_OF edge.                    *)
(***************************************************************************)
C13_EarlyFailuresStop ==
    \A c \in DOMAIN calls :
        LET log == calls[c].log
        IN  /\ (Len(log) >= 1 /\ log[1].kind = "insert_message" /\ ~log[1].ok)
                => /\ Len(log) = 1
                   /\ calls[c].pc = "returned"
                   /\ calls[c].result = "Err"
                   /\ calls[c].linked = <<>>
                   /\ calls[c].k = 0
                   /\ MessageOf(c) = {}
            /\ (Len(log) >= 2 /\ log[2].kind = "part_of" /\ ~log[2].ok)
                => /\ Len(log) = 2
                   /\ calls[c].pc = "returned"
                   /\ calls[c].result = "Err"
                   /\ calls[c].linked = <<>>
                   /\ calls[c].k = 0
                   /\ log[1].ok
                   /\ MessageOf(c) = log[1].created
                   /\ \A m \in MessageOf(c) :
                        /\ OutDegree(m, "PART_OF") = 0
                        /\ \A e \in DOMAIN nodes : Mentions(e, m) = 0

\* The PART_OF link of a message with entities failed; its node is in the graph
C13_Witness ==
    \E c \in DOMAIN calls :
        /\ Len(calls[c].log) = 2
        /\ ~calls[c].log[2].ok
        /\ calls[c].result = "Err"
        /\ Configs(c) # <<>>
        /\ Cardinality(MessageOf(c)) = 1

(***************************************************************************)
(* C14.  current_conversation() is the id the latest successful             *)
(* AgenticMemory::start_conversation returned (None before the first).     *)
(* Every process_user_message and store_assistant_message that reaches     *)
(* add_message hands it the conversation that was started last before the  *)
(* call, and the PART_OF edges of its message lead to that conversation    *)
(* only.  A failed start_conversation leaves the current conversation      *)
(* unchanged.                                                              *)
(***************************************************************************)
\* Identifiers are handed out in increasing order: the greatest of a set is
\* the one created last
Latest(ids) == IF ids = {} THEN 0 ELSE CHOOSE i \in ids : \A j \in ids : j <= i

C14_CurrentConversation ==
    /\ [](/\ current_conversation_id = Latest(ConversationIds)
          /\ \A c \in DOMAIN calls :
                IF calls[c].early = "none"
                THEN /\ calls[c].conversation_id
                            = Latest({i \in ConversationIds : i < calls[c].msg_id})
                     /\ calls[c].conversation_id # 0
                     /\ \A m \in MessageOf(c) : \A r \in BagToSet(edges) :
                            (r.type = "PART_OF" /\ r.src = m)
                            => nodes[r.dst] = ConversationNode(calls[c].conversation_id)
                     /\ (Len(calls[c].log) >= 2 /\ calls[c].log[2].ok)
                            => \A m \in MessageOf(c) : OutDegree(m, "PART_OF") = 1
                ELSE calls[c].log = <<>>)
    /\ [][(nextId' # nextId /\ nodes' = nodes /\ calls' = calls)
            => current_conversation_id' = current_conversation_id]_vars

\* A message was stored in the first conversation, a second conversation was
\* started, and a user message was stored in it
C14_Witness ==
    /\ Cardinality(ConversationIds) = 2
    /\ \E c1, c2 \in DOMAIN calls :
        /\ c1 < c2
        /\ calls[c1].result = "Ok" /\ calls[c2].result = "Ok"
        /\ calls[c2].role = "user"
        /\ calls[c1].conversation_id < calls[c2].conversation_id
        /\ calls[c2].conversation_id = current_conversation_id
        /\ \A m \in MessageOf(c1) : OutDegree(m, "PART_OF") = 1

(***************************************************************************)
(* C15.  A successful find_related_entities(T) returns, each once, exactly *)
(* the names of the Person nodes and the descriptions of the Task nodes    *)
(* that have a MENTIONED_IN edge into a Message into which a Topic node    *)
(* named T has one too: no name that only a Topic node carries, and        *)
(* nothing of an entity mentioned only in messages T is not mentioned in.  *)
(***************************************************************************)
\* The nodes of a label that share a message with a Topic node named T
CoMentioned(lbl, T) ==
    {e \in NodesOf(lbl) :
        \E m \in NodesOf("Message") : \E t \in NodesOf("Topic") :
            /\ nodes[t].props.name = T
            /\ Mentions(t, m) >= 1
            /\ Mentions(e, m) >= 1}

RelatedNames(T) ==
    {nodes[e].props.name : e \in CoMentioned("Person", T)}
        \cup {nodes[e].props.description : e \in CoMentioned("Task", T)}

Range(s) == {s[i] : i \in DOMAIN s}

C15_RelatedExactly ==
    (retrieved.op = "find_related_entities" /\ retrieved.result = "Ok")
    => /\ Range(retrieved.value) = RelatedNames(retrieved.arg)
       /\ Len(retrieved.value) = Cardinality(RelatedNames(retrieved.arg))

\* Alice shares a message with Rust and is returned; O'Reilly and his task are
\* in the graph, in a message without Rust, and are not
C15_Witness ==
    /\ retrieved.op = "find_related_entities"
    /\ retrieved.arg = Rust
    /\ retrieved.value = <<Alice>>
    /\ MatchNodes(nodes, "Person", "name", OReilly) # {}
    /\ MatchNodes(nodes, "Task", "description", WriteTests) # {}
    /\ \E e \in NodesOf("Person") : \E m \in NodesOf("Message") :
        nodes[e].props.name = OReilly /\ Mentions(e, m) = 1

(***************************************************************************)
(* C16.  End to end: a conversation was started and two messages were      *)
(* ingested, each with the entities {people: [Alice], topics: [Rust],      *)
(* tasks: []}, both calls returning success.  Then a successful            *)
(* find_related_entities("Rust") returns a sequence that holds Alice       *)
(* exactly once, and the graph holds a single Person node Alice, with two  *)
(* MENTIONED_IN edges.                                                     *)
(***************************************************************************)
AliceAndRust ==
    [people |-> <<Alice>>, topics |-> <<Rust>>, tasks |-> <<>>, documents |-> <<>>]

C16_EndToEnd ==
    (/\ Len(calls) = 2
     /\ \A c \in DOMAIN calls : calls[c].entities = AliceAndRust /\ calls[c].result = "Ok"
     /\ retrieved.op = "find_related_entities"
     /\ retrieved.arg = Rust
     /\ retrieved.result = "Ok")
    => /\ Occurrences(retrieved.value, Alice) = 1
       /\ Cardinality(EntityNodes(Person(Alice))) = 1
       /\ \A e \in EntityNodes(Person(Alice)) : OutDegree(e, "MENTIONED_IN") = 2

(***************************************************************************)
(* C17.  When its query did not fail in the backend, find_related_entities *)
(* returns success with an empty sequence, not an error, if no Topic node  *)
(* has the name asked for, or if no Person and no Task shares a message    *)
(* with it.                                                                *)
(***************************************************************************)
C17_EmptyIsSuccess ==
    (/\ retrieved.op = "find_related_entities"
     /\ retrieved.cause = "none"
     /\ \/ MatchNodes(nodes, "Topic", "name", retrieved.arg) = {}
        \/ CoMentioned("Person", retrieved.arg) \cup CoMentioned("Task", retrieved.arg) = {})
    => retrieved.result = "Ok" /\ retrieved.value = <<>>

\* The topic is in the graph, mentioned in a message together with another
\* topic only
C17_Witness ==
    /\ retrieved.op = "find_related_entities"
    /\ retrieved.arg = Rust
    /\ retrieved.result = "Ok"
    /\ retrieved.value = <<>>
    /\ \E t \in MatchNodes(nodes, "Topic", "name", Rust) :
        \E g \in MatchNodes(nodes, "Topic", "name", Graphs) :
            \E m \in NodesOf("Message") : Mentions(t, m) = 1 /\ Mentions(g, m) = 1

(***************************************************************************)
(* C18.  A successful get_conversation_messages(conversation_id, N)        *)
(* returns at most N triples (role, content, timestamp), each of a message *)
(* of its own that has a PART_OF edge to that conversation, none of a      *)
(* message of another conversation, ordered by timestamp descending and    *)
(* holding every message that is among the N newest whatever the order of  *)
(* equal timestamps.  For messages A, B, C ingested in that order into one *)
(* conversation with increasing timestamps, and N = 2, the result is       *)
(* [C, B].                                                                 *)
(***************************************************************************)
\* The calls whose message has a PART_OF edge to the conversation
CallsIn(conversation_id) ==
    {c \in DOMAIN calls :
        \E m \in MessageOf(c) :
            \E v \in MatchNodes(nodes, "Conversation", "id", conversation_id) :
                CopiesIn([type |-> "PART_OF", src |-> m, dst |-> v], edges) >= 1}

TimestampOf(c) == nodes[CHOOSE m \in MessageOf(c) : TRUE].props.timestamp

\* The (role, content, timestamp) the caller of add_message handed over
TripleOf(c) == <<calls[c].role, calls[c].content, TimestampOf(c)>>

C18_RecentMessages ==
    (retrieved.op = "get_conversation_messages" /\ retrieved.result = "Ok")
    => LET value == retrieved.value
           N == retrieved.limit
           in == CallsIn(retrieved.arg)
       IN  /\ Len(value) <= N
           /\ \E f \in [DOMAIN value -> in] :
                /\ \A i, j \in DOMAIN value : f[i] = f[j] => i = j
                /\ \A i \in DOMAIN value : value[i] = TripleOf(f[i])
           /\ \A i, j \in DOMAIN value : i < j => value[i][3] >= value[j][3]
           /\ \A c \in in :
                Cardinality({d \in in \ {c} : TimestampOf(d) >= TimestampOf(c)}) < N
                => TripleOf(c) \in Range(value)
           /\ (/\ N = 2
               /\ in = {1, 2, 3}
               /\ TimestampOf(1) < TimestampOf(2)
               /\ TimestampOf(2) < TimestampOf(3))
                => value = <<TripleOf(3), TripleOf(2)>>

\* Two conversations were started; A, B and C were ingested into one of them
\* at three instants, A being a user message, and the two newest were asked for
C18_Witness ==
    /\ retrieved.op = "get_conversation_messages"
    /\ retrieved.result = "Ok"
    /\ retrieved.limit = 2
    /\ Cardinality(ConversationIds) = 2
    /\ CallsIn(retrieved.arg) = {1, 2, 3}
    /\ calls[1].role = "user"
    /\ TimestampOf(1) < TimestampOf(2) /\ TimestampOf(2) < TimestampOf(3)
    /\ retrieved.value = <<TripleOf(3), TripleOf(2)>>
    /\ retrieved.value[1][2] = Hello

(***************************************************************************)
(* C19.  For every input string s, every single quote in escape_string(s)  *)
(* is immediately preceded by a run of backslashes of odd length, and the  *)
(* output put between single quotes is a literal that ends at the closing  *)
(* quote and not before.  Where the input holds a backslash directly       *)
(* followed by a quote, the output holds an escaped backslash followed by  *)
(* an escaped quote.                                                       *)
(***************************************************************************)
RECURSIVE BackslashesBefore(_, _)
BackslashesBefore(s, i) ==
    IF i = 1 \/ s[i - 1] # BSL THEN 0 ELSE 1 + BackslashesBefore(s, i - 1)

QuotesEscaped(s) ==
    \A i \in DOMAIN s : s[i] = SQ => BackslashesBefore(s, i) % 2 = 1

\* Reading from position i inside a literal: the position of the quote that
\* ends it (0 when none does); a backslash takes the next character with it
RECURSIVE LiteralEnd(_, _)
LiteralEnd(s, i) ==
    IF i > Len(s) THEN 0
    ELSE IF s[i] = BSL THEN LiteralEnd(s, i + 2)
    ELSE IF s[i] = SQ THEN i
    ELSE LiteralEnd(s, i + 1)

\* Where the output for the input's character i begins
OutputIndex(s, i) == Len(escape_string(SubSeq(s, 1, i - 1))) + 1

C19_EscapeQuotes ==
    text.op = "escape_string"
    => /\ QuotesEscaped(text.out)
       /\ LiteralEnd(text.out \o <<SQ>>, 1) = Len(text.out) + 1
       /\ \A i \in 1..(Len(text.s) - 1) :
            (text.s[i] = BSL /\ text.s[i + 1] = SQ)
            => SubSeq(text.out, OutputIndex(text.s, i), OutputIndex(text.s, i) + 3)
                    = <<BSL, BSL, BSL, SQ>>

\* A quote, then a backslash directly followed by a quote
C19_Witness ==
    /\ text.op = "escape_string"
    /\ text.s = <<SQ, BSL, SQ>>
    /\ text.out = <<BSL, SQ, BSL, BSL, BSL, SQ>>

(***************************************************************************)
(* C20.  In every statement that start_conversation, add_message,          *)
(* link_entity, get_conversation_messages and find_related_entities build, *)
(* the text embedded for a string of the caller (conversation title,       *)
(* conversation id, role, message content, entity name or description,     *)
(* topic name) holds no unescaped single quote.                            *)
(***************************************************************************)
C20_CallerTextEscaped ==
    text.op \in {"start_conversation", "add_message", "link_entity",
                 "get_conversation_messages", "find_related_entities"}
    => \A i \in DOMAIN text.out : \A j \in DOMAIN text.out[i] :
            text.out[i][j].kind = "caller" => QuotesEscaped(text.out[i][j].text)

(***************************************************************************)
(* C21.  escape_string maps the empty string to the empty string and       *)
(* returns unchanged every string that holds none of the nine special      *)
(* characters (backslash, single quote, double quote, newline, carriage    *)
(* return, tab, backspace, form feed, NUL), text outside ASCII included.   *)
(***************************************************************************)
C21_PlainUnchanged ==
    text.op = "escape_string"
    => /\ text.s = <<>> => text.out = <<>>
       /\ (\A i \in DOMAIN text.s : text.s[i] \notin Special) => text.out = text.s

\* A string of plain characters, one of them outside ASCII, came back as it was
C21_Witness ==
    /\ text.op = "escape_string"
    /\ text.s = <<"a", NonAscii, "a">>
    /\ text.out = text.s

(***************************************************************************)
(* C22.  build_context emits its lines in a fixed order: the people line   *)
(* (present iff people is non-empty), the topics line (iff topics is       *)
(* non-empty), then one related line per topic in extraction order         *)
(* (present iff find_related_entities returned a non-empty result for that *)
(* topic), then the tasks line (iff tasks is non-empty).  With people      *)
(* [Alice], topics [Rust], no tasks and no related hit the text is the     *)
(* people line followed by the topics line.                                *)
(***************************************************************************)
\* The lines of a text
RECURSIVE Lines(_)
Lines(s) ==
    IF \A i \in DOMAIN s : s[i] # LF THEN <<s>>
    ELSE LET i == CHOOSE j \in DOMAIN s :
                    s[j] = LF /\ \A h \in 1..(j - 1) : s[h] # LF
         IN  <<SubSeq(s, 1, i - 1)>> \o Lines(SubSeq(s, i + 1, Len(s)))

\* The lines the claim names, in its order, each with whether it is present
ClaimedLines(entities, related) ==
    <<[present |-> entities.people # <<>>, line |-> PeopleLine(entities.people)],
      [present |-> entities.topics # <<>>, line |-> TopicsLine(entities.topics)]>>
        \o [i \in 1..Len(entities.topics) |->
                [present |-> related[i].result = "Ok" /\ related[i].value # <<>>,
                 line |-> RelatedLine(entities.topics[i], related[i].value)]]
        \o <<[present |-> entities.tasks # <<>>, line |-> TasksLine(entities.tasks)]>>

PresentLines(entities, related) ==
    LET kept == SelectSeq(ClaimedLines(entities, related), LAMBDA l : l.present)
    IN  [i \in 1..Len(kept) |-> kept[i].line]

C22_LineOrder ==
    (retrieved.op = "generate_response" /\ retrieved.context_result = "Ok")
    => /\ PresentLines(retrieved.arg, retrieved.related) # <<>>
            => Lines(retrieved.context)
                    = PresentLines(retrieved.arg, retrieved.related)
       /\ (/\ retrieved.arg.people = <<Alice>>
           /\ retrieved.arg.topics = <<Rust>>
           /\ retrieved.arg.tasks = <<>>
           /\ retrieved.related[1].value = <<>>)
            => retrieved.context
                    = <<"People mentioned: ", "A", LF, "Topics discussed: ", "A">>

\* All three lists handed over, and each of the two topics has related
\* entities: five lines
C22_Witness ==
    /\ retrieved.op = "generate_response"
    /\ retrieved.context_result = "Ok"
    /\ retrieved.arg.people # <<>> /\ retrieved.arg.tasks # <<>>
    /\ Len(retrieved.arg.topics) = 2
    /\ \A i \in 1..2 : retrieved.related[i].value # <<>>
    /\ Len(Lines(retrieved.context)) = 5

(***************************************************************************)
(* C23.  build_context returns the fixed sentinel text exactly when no     *)
(* section applies, that is when people, topics and tasks are all empty;   *)
(* in every other case it returns a non-empty text that is not the         *)
(* sentinel.                                                               *)
(***************************************************************************)
C23_Sentinel ==
    (retrieved.op = "generate_response" /\ retrieved.context_result = "Ok")
    => /\ retrieved.context = NoContext
            <=> /\ retrieved.arg.people = <<>>
                /\ retrieved.arg.topics = <<>>
                /\ retrieved.arg.tasks = <<>>
       /\ retrieved.context # <<>>

\* build_context was handed three empty lists and returned the sentinel
C23_Witness ==
    /\ retrieved.op = "generate_response"
    /\ retrieved.context_result = "Ok"
    /\ retrieved.arg = NoEntities
    /\ retrieved.context = NoContext

(***************************************************************************)
(* C24.  A failure of find_related_entities during context assembly never  *)
(* fails build_context and never keeps generate_response from asking for   *)
(* the completion: build_context returns success, and the topic whose      *)
(* retrieval failed contributes no related line.                           *)
(***************************************************************************)
\* Line l is the related line of the topic
IsRelatedLineOf(l, topic) ==
    LET prefix == <<"Related to '">> \o topic \o <<"': ">>
    IN  Len(l) >= Len(prefix) /\ SubSeq(l, 1, Len(prefix)) = prefix

C24_RetrievalFailureTolerated ==
    retrieved.op = "generate_response"
    => \A i \in DOMAIN retrieved.related :
        retrieved.related[i].cause = "unavailable"
        => /\ retrieved.context_result = "Ok"
           /\ retrieved.prompted
           /\ \A j \in DOMAIN Lines(retrieved.context) :
                ~IsRelatedLineOf(Lines(retrieved.context)[j], retrieved.arg.topics[i])

\* The retrieval for the second of two topics failed while the graph holds
\* entities related to it; the first topic has its related line
C24_Witness ==
    /\ retrieved.op = "generate_response"
    /\ Len(retrieved.arg.topics) = 2
    /\ retrieved.related[1].result = "Ok" /\ retrieved.related[1].value # <<>>
    /\ retrieved.related[2].cause = "unavailable"
    /\ RelatedMatches(retrieved.arg.topics[2]) # {}
    /\ retrieved.context_result = "Ok"
    /\ Len(Lines(retrieved.context)) = 4

ClaimedEntity(entities, i) ==
    IF i <= Len(entities.people)
    THEN [variant |-> "Person", key |-> "name", raw |-> entities.people[i]]
    ELSE IF i <= Len(entities.people) + Len(entities.topics)
    THEN [variant |-> "Topic", key |-> "name",
          raw |-> entities.topics[i - Len(entities.people)]]
    ELSE [variant |-> "Task", key |-> "description",
          raw |-> entities.tasks[i - Len(entities.people) - Len(entities.topics)]]

IsNodeOf(n, claimed) ==
    /\ n.label = claimed.variant
    /\ claimed.key \in DOMAIN n.props
    /\ n.props[claimed.key] = claimed.raw

\* A step in which call c executed a statement of link_entity executed it for
\* the entity that follows those link_entity has returned for
LinkedInOrder(c) ==
    LET f == calls[c]
        p == Len(calls'[c].log)
        entry == calls'[c].log[p]
        i == Len(f.linked) + 1
        claimed == ClaimedEntity(f.entities, i)
    IN  (p = Len(f.log) + 1 /\ entry.kind \in {"cond_insert", "insert", "mention"})
        => /\ i <= Len(f.entities.people) + Len(f.entities.topics) + Len(f.entities.tasks)
           /\ p = (IF entry.kind = "mention" THEN MentionAt(i) ELSE CreateAt(i))
           /\ \A n \in (DOMAIN nodes') \ (DOMAIN nodes) : IsNodeOf(nodes'[n], claimed)
           /\ \A r \in BagToSet(edges' (-) edges) :
                /\ r.type = "MENTIONED_IN"
                /\ IsNodeOf(nodes[r.src], claimed)
                /\ r.dst \in MessageOf(c)

StopsAtFirstError ==
    \A c \in DOMAIN calls : \A i \in DOMAIN calls[c].linked :
        calls[c].linked[i] = "Err"
        => /\ calls[c].pc = "returned"
           /\ i = Len(calls[c].linked) /\ i = calls[c].k
           /\ Len(calls[c].log) \in {CreateAt(i), MentionAt(i)}
           /\ ~calls[c].log[Len(calls[c].log)].ok
           /\ calls[c].entities_ret = "Err" /\ calls[c].result = "Err"
           /\ \A j \in (i + 1)..Len(Configs(c)) :
                Configs(c)[j] \notin {Configs(c)[h] : h \in 1..i}
                => \A e \in EntityNodes(Configs(c)[j]) : \A m \in MessageOf(c) :
                        Mentions(e, m) = 0
           /\ \A h \in 1..(i - 1) :
                /\ calls[c].linked[h] = "Ok"
                /\ \A n \in calls[c].log[CreateAt(h)].created :
                        n \in EntityNodes(Configs(c)[h])
                /\ calls[c].log[MentionAt(h)].rows >= 1
                    => \E e \in EntityNodes(Configs(c)[h]) : \E m \in MessageOf(c) :
                            Mentions(e, m) >= 1

C27_IngestionOrder ==
    /\ \A r \in BagToSet(edges) :
        r.type = "MENTIONED_IN"
        => /\ r.dst \in NodesOf("Message")
           /\ \E q \in BagToSet(edges) :
                q.type = "PART_OF" /\ q.src = r.dst /\ q.dst \in NodesOf("Conversation")
    /\ \A c \in DOMAIN calls : \A j \in DOMAIN calls[c].log :
        /\ calls[c].log[j].kind = "insert_message" <=> j = 1
        /\ calls[c].log[j].kind = "part_of" <=> j = 2
        /\ j > 2 => /\ calls[c].log[1].ok /\ calls[c].log[2].ok
                    /\ calls[c].log[j].kind \in {"cond_insert", "insert", "mention"}

\* A call in flight has linked its first entity to its message and is about
\* to create the second; another message lost its PART_OF link and has no
\* mention
C27_Witness ==
    /\ \E c \in DOMAIN calls :
        /\ calls[c].pc = "create_entity" /\ calls[c].k = 2
        /\ \E e \in DOMAIN nodes : \E m \in MessageOf(c) : Mentions(e, m) >= 1
    /\ \E m \in NodesOf("Message") :
        /\ OutDegree(m, "PART_OF") = 0
        /\ \A e \in DOMAIN nodes : Mentions(e, m) = 0

(***************************************************************************)
(* C28.  In every reachable state, also after an add_message that failed   *)
(* or while one is between two statements, the entities linked to a        *)
(* message form a prefix of its entity sequence (people, then topics, then *)
(* tasks): if the entity at position k has its MENTIONED_IN edge to the    *)
(* message, every entity at a position before k has its edge too.          *)
(***************************************************************************)
\* The entity at position k of call c's sequence has a MENTIONED_IN edge to
\* the call's message.  An entity is its label and natural key: one listed
\* twice is one entity, linked from its first position on.
HasMention(c, k) ==
    \E e \in EntityNodes(Configs(c)[k]) : \E m \in MessageOf(c) : Mentions(e, m) >= 1

FirstPosition(c, k) ==
    CHOOSE h \in 1..k :
        /\ Configs(c)[h] = Configs(c)[k]
        /\ \A g \in 1..(h - 1) : Configs(c)[g] # Configs(c)[k]

C28_LinkedPrefix ==
    \A c \in DOMAIN calls : \A k \in DOMAIN Configs(c) :
        HasMention(c, k) => \A h \in 1..(FirstPosition(c, k) - 1) : HasMention(c, h)

(***************************************************************************)
(* C29.  A find_related_entities call that runs between two statements of  *)
(* an add_message in progress, its query being answered by the backend,    *)
(* returns successfully; what it returns is a subset of what it returns    *)
(* once that ingestion has completed, and holds no entity that is not      *)
(* co-mentioned with the topic.                                            *)
(***************************************************************************)
\* What the query of find_related_entities yields in this state
QueryNames(topic_name) ==
    Range(EntityNames(CHOOSE rows \in Orderings({entity_name(nodes[x[3]]) :
                                            x \in RelatedMatches(topic_name)}) : TRUE))

ReadInProgress ==
    (/\ retrieved.op = "find_related_entities"
     /\ retrieved.cause = "none"
     /\ ~Quiescent)
    => /\ retrieved.result = "Ok"
       /\ Range(retrieved.value) = QueryNames(retrieved.arg)
       /\ Range(retrieved.value) \subseteq RelatedNames(retrieved.arg)

\* No step takes an entity out of what the query yields
ResultGrows ==
    \A topic_name \in QueryTopics \cup {Graphs} :
        QueryNames(topic_name) \subseteq QueryNames(topic_name)'

C29_ReadDuringIngestion ==
    /\ []ReadInProgress
    /\ [][ResultGrows]_vars

\* The second message mentions Rust and a task; Rust is linked to it, the
\* task not yet, and the call returned the person of the first message only
C29_Witness ==
    /\ retrieved.op = "find_related_entities"
    /\ retrieved.result = "Ok"
    /\ retrieved.arg = Rust
    /\ retrieved.value = <<Alice>>
    /\ \E c \in DOMAIN calls :
        /\ calls[c].pc \in {"create_entity", "link_mention"}
        /\ calls[c].k = 2
        /\ Configs(c) = <<Topic(Rust), Task(WriteTests)>>
        /\ HasMention(c, 1) /\ ~HasMention(c, 2)

(***************************************************************************)
(* C30.  In get_conversation_messages and find_related_entities a row with *)
(* a missing column or a value that is not a string is dropped and never   *)
(* causes an error: when the backend query succeeds the call returns       *)
(* success with exactly the well-typed rows, in the backend's order.       *)
(***************************************************************************)
IsString(v) == v.type = "String"

\* The rows of the answer whose columns are all strings
WellTyped ==
    {i \in DOMAIN text.s :
        IF text.op = "message_rows"
        THEN /\ IsString(text.s[i].role)
             /\ IsString(text.s[i].content)
             /\ IsString(text.s[i].timestamp)
        ELSE IsString(text.s[i])}

\* What the operation returns for a well-typed row
Parsed(row) ==
    IF text.op = "message_rows"
    THEN <<row.role.val, row.content.val, row.timestamp.val>>
    ELSE row.val

C30_MalformedRowsDropped ==
    (/\ retrieved.op \in {"get_conversation_messages", "find_related_entities"}
     /\ text.op \in {"message_rows", "name_rows"}
     /\ retrieved.cause = "none")
    => /\ retrieved.result = "Ok"
       /\ Len(retrieved.value) = Cardinality(WellTyped)
       /\ \A i \in WellTyped :
            retrieved.value[Cardinality({j \in WellTyped : j <= i})] = Parsed(text.s[i])

\* Three rows, the second not a string: the first and the third are returned,
\* in that order
C30_Witness ==
    /\ text.op = "name_rows"
    /\ text.s = <<StringValue(ItsMe), NumberValue, StringValue(Hello)>>
    /\ retrieved.op = "find_related_entities"
    /\ retrieved.result = "Ok"
    /\ retrieved.value = <<ItsMe, Hello>>

(***************************************************************************)
(* C31.  escape_string is injective and is inverted exactly by the         *)
(* unescape that maps each two-character escape sequence back to its       *)
(* character: unescape(escape_string(s)) = s for every s.  Escaping is not *)
(* idempotent: escape_string(escape_string(s)) differs from                *)
(* escape_string(s) whenever s holds a special character.                  *)
(***************************************************************************)
C31_EscapeInjective ==
    text.op = "escape_string"
    => /\ Unescape(text.out) = text.s
       /\ \A s \in Strings : escape_string(s) = text.out => s = text.s
       /\ (\E i \in DOMAIN text.s : text.s[i] \in Special)
            => escape_string(text.out) # text.out

\* A backslash, a plain character and a newline: the output escaped again
\* has every backslash doubled
C31_Witness ==
    /\ text.op = "escape_string"
    /\ text.s = <<BSL, "a", LF>>
    /\ text.out = <<BSL, BSL, "a", BSL, "n">>
    /\ Unescape(text.out) = text.s
    /\ Len(escape_string(text.out)) = 8

(***************************************************************************)
(* C32.  When entity extraction fails in process_user_message the error is *)
(* returned to the caller and no statement is sent to the backend: the     *)
(* user message is not persisted and the graph is unchanged.               *)
(***************************************************************************)
\* The step appended a frame: a call of process_user_message or
\* store_assistant_message began
CallBegan == Len(calls') = Len(calls) + 1

\* The calls whose Message insert succeeded
Persisted == {c \in DOMAIN calls : calls[c].log # <<>> /\ calls[c].log[1].ok}

GraphUntouched ==
    /\ nodes' = nodes
    /\ edges' = edges
    /\ nextId' = nextId
    /\ failures' = failures

ExtractionErrors ==
    /\ \A c \in DOMAIN calls :
        calls[c].early = "extraction"
        => /\ calls[c].pc = "returned"
           /\ calls[c].result = "Err"
           /\ calls[c].log = <<>>
           /\ calls[c].role = "user"
    /\ Cardinality(NodesOf("Message")) = Cardinality(Persisted)

C32_ExtractionFailure ==
    /\ []ExtractionErrors
    /\ [][(CallBegan /\ calls'[Len(calls')].early = "extraction")
            => GraphUntouched]_vars

\* A first user message was stored; the extraction of the second failed and
\* the graph holds the first message only
C32_Witness ==
    /\ Len(calls) = 2
    /\ calls[1].result = "Ok"
    /\ calls[2].early = "extraction"
    /\ Cardinality(NodesOf("Message")) = 1

(***************************************************************************)
(* C33.  process_user_message and store_assistant_message called while no  *)
(* conversation has been started successfully return a "No active          *)
(* conversation" error and leave the graph unchanged: no extraction call   *)
(* is made and no statement is executed.                                   *)
(***************************************************************************)
NoConversationErrors ==
    \A c \in DOMAIN calls :
        /\ calls[c].early = "no_conversation"
            => /\ calls[c].pc = "returned"
               /\ calls[c].result = "Err"
               /\ calls[c].log = <<>>
               /\ calls[c].conversation_id = 0
        /\ calls[c].early = "extraction" => calls[c].conversation_id # 0

C33_NoActiveConversation ==
    /\ []NoConversationErrors
    /\ [][(CallBegan /\ ConversationIds = {})
            => /\ calls'[Len(calls')].early = "no_conversation"
               /\ calls'[Len(calls')].result = "Err"
               /\ GraphUntouched]_vars

\* start_conversation failed; a user message and an assistant message were
\* then handed over, both were refused and the graph is empty
C33_Witness ==
    /\ failures = 1
    /\ nextId > 1
    /\ Len(calls) = 2
    /\ calls[1].role = "user" /\ calls[1].early = "no_conversation"
    /\ calls[2].role = "assistant" /\ calls[2].early = "no_conversation"
    /\ nodes = <<>>

(***************************************************************************)
(* C34.  With a backend whose every call returns, with success or with an  *)
(* error, add_message always terminates with Ok or Err after executing at  *)
(* most 2 + 2 * (|people| + |topics| + |tasks|) statements, and on success *)
(* it has executed exactly that many.                                      *)
(***************************************************************************)
StatementBound(c) == 2 + 2 * Len(Configs(c))

StatementsBounded ==
    \A c \in DOMAIN calls :
        /\ Len(calls[c].log) <= StatementBound(c)
        /\ calls[c].pc = "returned" <=> calls[c].result \in {"Ok", "Err"}
        /\ calls[c].result = "Ok" => Len(calls[c].log) = StatementBound(c)

C34_Terminates ==
    /\ []StatementsBounded
    /\ \A c \in 1..MaxMessages :
        (c \in DOMAIN calls) ~> (c \in DOMAIN calls /\ calls[c].pc = "returned")

\* A call with three entities returned Ok after eight statements; another
\* returned Err after its second
C34_Witness ==
    \E c1, c2 \in DOMAIN calls :
        /\ Len(Configs(c1)) = 3
        /\ calls[c1].result = "Ok" /\ Len(calls[c1].log) = 8
        /\ calls[c2].result = "Err" /\ Len(calls[c2].log) = 2

(***************************************************************************)
(* C35.  The documents list of ExtractedEntities is never ingested: no      *)
(* sequence of operations creates a Document node or an edge for a          *)
(* document, and the documents list changes neither the graph nor the text  *)
(* returned by build_context.                                               *)
(***************************************************************************)
WithoutDocuments(entities) == [entities EXCEPT !.documents = <<>>]

\* No node carries the label Document or the name of an extracted document,
\* every edge is of one of the two types the operations create, between
\* nodes of the labels they create
NoDocumentInGraph ==
    /\ \A n \in DOMAIN nodes :
        /\ nodes[n].label \in {"Conversation", "Message", "Person", "Topic", "Task"}
        /\ nodes[n].label \in {"Person", "Topic"} => nodes[n].props.name # Readme
        /\ nodes[n].label = "Task" => nodes[n].props.description # Readme
    /\ \A r \in BagToSet(edges) :
        \/ r.type = "PART_OF" /\ nodes[r.src].label = "Message"
                /\ nodes[r.dst].label = "Conversation"
        \/ r.type = "MENTIONED_IN" /\ nodes[r.src].label \in {"Person", "Topic", "Task"}
                /\ nodes[r.dst].label = "Message"

\* An ingestion executes the statements of the same ingestion without the
\* documents
DocumentsLeaveGraph ==
    \A c \in DOMAIN calls :
        /\ Configs(c) = EntityConfigs(WithoutDocuments(calls[c].entities))
        /\ Len(calls[c].log) <= 2 + 2 * (Len(calls[c].entities.people)
                                        + Len(calls[c].entities.topics)
                                        + Len(calls[c].entities.tasks))
        /\ \A p \in DOMAIN calls[c].log : \A n \in calls[c].log[p].created :
                nodes[n].label \in {"Message", "Person", "Topic", "Task"}

\* The text is the text of the same entities without the documents, and no
\* document's name is in it
DocumentsLeaveContext ==
    (retrieved.op = "generate_response" /\ retrieved.context_result = "Ok")
    => /\ retrieved.context
            = ContextText(context_parts(WithoutDocuments(retrieved.arg), retrieved.related))
       /\ \A i \in DOMAIN retrieved.context : retrieved.context[i] # Readme[1]
       /\ Len(Lines(retrieved.context))
            = Len(Lines(ContextText(context_parts(WithoutDocuments(retrieved.arg),
                                                  retrieved.related))))

C35_DocumentsIgnored ==
    /\ NoDocumentInGraph
    /\ DocumentsLeaveGraph
    /\ DocumentsLeaveContext

\* A message whose extraction names a document was ingested with success, and
\* build_context, handed nothing but a document, returned the sentinel
C35_Witness ==
    /\ \E c \in DOMAIN calls :
        /\ calls[c].entities.documents = <<Readme>>
        /\ calls[c].result = "Ok"
    /\ retrieved.op = "generate_response"
    /\ retrieved.context_result = "Ok"
    /\ retrieved.arg.documents = <<Readme>>
    /\ retrieved.arg.people = <<>> /\ retrieved.arg.topics = <<>>
    /\ retrieved.arg.tasks = <<>>
    /\ retrieved.context = NoContext

(***************************************************************************)
(* C36.  Extraction-response parsing is tolerant: for each of people,      *)
(* topics, tasks and documents a missing, null or non-array field yields   *)
(* an empty list, non-string array elements are dropped while the strings  *)
(* keep their order, and a response that is not valid JSON yields an error *)
(* value rather than a crash.                                              *)
(***************************************************************************)
RECURSIVE StringsIn(_)
StringsIn(elements) ==
    IF elements = <<>>
    THEN <<>>
    ELSE (IF Head(elements).type = "String" THEN <<Head(elements).val>> ELSE <<>>)
            \o StringsIn(Tail(elements))

\* The list the claim gives a field of that value
ClaimedList(value) == IF value.type = "Array" THEN StringsIn(value.val) ELSE <<>>

\* Whatever the response, the parsing returns
NoCrash == text.op = "parsed" => text.out.result # "panic"

\* Where it returns: the lists of a response that holds JSON, an error for
\* one that holds none
ParsedTolerantly ==
    (text.op = "parsed" /\ text.out.result # "panic")
    => /\ text.t.holds = "none" => text.out.result = "Err"
       /\ text.t.holds # "none"
            => /\ text.out.result = "Ok"
               /\ \A i \in DOMAIN FieldNames :
                    text.out.entities[FieldNames[i]]
                        = ClaimedList(text.t.fields[FieldNames[i]])

C36_TolerantParsing ==
    /\ NoCrash
    /\ ParsedTolerantly

\* A field with strings around a number and a null field were parsed into
\* the two strings in their order and the empty list
C36_Tolerated ==
    /\ text.op = "parsed"
    /\ text.out.result = "Ok"
    /\ text.t.fields["people"] = JsonArray(<<JsonString(Rust), JsonNumber>>)
    /\ text.t.fields["topics"] = JsonArray(<<JsonString(Rust)>>)
    /\ text.t.fields["tasks"] = Absent
    /\ text.out.entities.people = <<Rust>>
    /\ text.out.entities.tasks = <<>>

====
